---- MODULE Spec2Model ----
(***************************************************************************)
(* Quran search: the matching core of the consolidated component           *)
(* (src/unnamed/part_004) and the search handler of                         *)
(* src/src/QuranSearchApp.jsx.                                              *)
(*                                                                         *)
(* A JavaScript string is modelled as the sequence of its UTF-16 code      *)
(* units (naturals); every character used here lies in the BMP, so one     *)
(* character is one unit, and String.length is Len.                        *)
(***************************************************************************)
EXTENDS Integers, Sequences, FiniteSets, TLC

VARIABLES
    mounted,     \* which build of the component is running, or "harness"
    quranData,   \* part_004: useState(null)   -- <<>> is null, <<c>> is the corpus c
    query,       \* part_004: useState("")
    results,     \* part_004: useState([])
    loading,     \* part_004: useState(true)
    error,       \* part_004: useState(null)   -- "null" or the message
    quran,       \* QuranSearchApp.jsx: useState(null)
    appQuery,    \* QuranSearchApp.jsx: query
    chips,       \* QuranSearchApp.jsx: chips
    appResults,  \* QuranSearchApp.jsx: results
    appLoading,  \* QuranSearchApp.jsx: loading
    message,     \* QuranSearchApp.jsx: message -- "null" or a message tag
    tafseerText, \* QuranSearchApp.jsx: tafseerText -- "null" or a text tag
    fetchState,  \* QuranSearchApp.jsx: the corpus fetch promise
    fn,          \* harness: the function applied last, "none" before the call
    args,        \* harness: the argument list
    ret,         \* harness: the value returned
    frame,       \* harness: the locals w, changed, loops of the strip loop running
    pc,          \* harness: position of the called function: "idle", a loop, "done"
    audioUrl,    \* QuranSearchApp.jsx: audioUrl -- <<>> is null, <<key>> the url of verse key
    audioRef,    \* QuranSearchApp.jsx: audioRef.current -- 0 is null, else an Audio object
    playing,     \* QuranSearchApp.jsx: the Audio objects that are playing
    pendingPlay, \* QuranSearchApp.jsx: the playAyah calls awaiting fetchAudioUrl
    nextAudio,   \* QuranSearchApp.jsx: the number of the next playAyah call
    pendingTafsir,   \* QuranSearchApp.jsx: the tafsir clicks awaiting fetchTafsir
    nextTafsir,      \* QuranSearchApp.jsx: the number of the next tafsir click
    lastTafsir,      \* QuranSearchApp.jsx: <<key>> of the verse of the latest tafsir click
    allWords,        \* QuranSearchApp.jsx: allWords
    suggestions,     \* QuranSearchApp.jsx: suggestions
    timers,          \* QuranSearchApp.jsx: the pending setTimeout callbacks
    suggestionTimer  \* QuranSearchApp.jsx: suggestionTimer.current while its timer is
                     \* pending -- <<>> is null or a timer that fired or was cleared

compVars == <<quranData, query, results, loading, error>>
appVars == <<quran, appQuery, chips, appResults, appLoading, message, tafseerText, fetchState>>
fnVars == <<fn, args, ret, frame, pc>>
audioVars == <<audioUrl, audioRef, playing, pendingPlay, nextAudio>>
tafsirVars == <<pendingTafsir, nextTafsir, lastTafsir>>
suggestVars == <<allWords, suggestions, timers, suggestionTimer>>
asyncVars == <<audioVars, tafsirVars, suggestVars>>
vars == <<mounted, compVars, appVars, fnVars, asyncVars>>

----------------------------------------------------------------------------
(* Code units.                                                             *)

HAMZA == 1569
ALEF_MADDA == 1570
ALEF_HAMZA_ABOVE == 1571
WAW_HAMZA == 1572
ALEF_HAMZA_BELOW == 1573
YEH_HAMZA == 1574
ALEF == 1575
BEH == 1576
TEH_MARBUTA == 1577
TEH == 1578
REH == 1585
SEEN == 1587
FEH == 1601
QAF == 1602
KAF == 1603
LAM == 1604
MEEM == 1605
NOON == 1606
HEH == 1607
WAW == 1608
ALEF_MAKSURA == 1609
YEH == 1610
TATWEEL == 1600
ALEF_WASLA == 1649
SUPERSCRIPT_ALEF == 1648
FATHA == 1614
KASRA == 1616
SHADDA == 1617
SUKUN == 1618
ARABIC_COMMA == 1548
SIGN_SALLALLAHOU == 1552
SMALL_HIGH_LIGATURE_SAD == 1750
ARABIC_ZERO == 1632
HAH == 1581
SAD == 1589
TAH == 1591
AIN == 1593
SPACE == 32
TAB == 9
DIGIT_ONE == 49
FULL_STOP == 46
LATIN_CAPITAL_A == 65
LATIN_SMALL_A == 97

----------------------------------------------------------------------------
(* String primitives of the JavaScript runtime used by the code.           *)

\* The characters matched by \s in a RegExp and removed by String.trim.
IsSpace(c) ==
    \/ c \in {9, 10, 11, 12, 13, 32, 160, 5760, 8232, 8233, 8239, 8287, 12288, 65279}
    \/ (c >= 8192 /\ c <= 8202)

MapSeq(s, F(_)) == [i \in 1..Len(s) |-> F(s[i])]

\* s.replace(/[class]/g, "") : every character of the class is deleted.
DeleteAll(s, InClass(_)) == SelectSeq(s, LAMBDA c : ~InClass(c))

\* String.prototype.startsWith / endsWith / includes / slice.
StartsWith(w, p) == Len(p) <= Len(w) /\ SubSeq(w, 1, Len(p)) = p
EndsWith(w, s) == Len(s) <= Len(w) /\ SubSeq(w, Len(w) - Len(s) + 1, Len(w)) = s
Includes(s, t) == \E i \in 0..(Len(s) - Len(t)) : SubSeq(s, i + 1, i + Len(t)) = t
SliceFrom(w, n) == SubSeq(w, n + 1, Len(w))
SliceDropLast(w, n) == SubSeq(w, 1, Len(w) - n)

\* s.replace(/\s+/g, " ") : every maximal run of white space becomes one space.
RECURSIVE CollapseSpaces(_)
CollapseSpaces(s) ==
    IF s = <<>> THEN <<>>
    ELSE IF IsSpace(Head(s))
         THEN IF Len(s) > 1 /\ IsSpace(s[2])
              THEN CollapseSpaces(Tail(s))
              ELSE <<SPACE>> \o CollapseSpaces(Tail(s))
         ELSE <<Head(s)>> \o CollapseSpaces(Tail(s))

\* String.prototype.trim.
RECURSIVE TrimStart(_)
TrimStart(s) == IF s # <<>> /\ IsSpace(Head(s)) THEN TrimStart(Tail(s)) ELSE s
RECURSIVE TrimEnd(_)
TrimEnd(s) ==
    IF s # <<>> /\ IsSpace(s[Len(s)]) THEN TrimEnd(SubSeq(s, 1, Len(s) - 1)) ELSE s
Trim(s) == TrimEnd(TrimStart(s))

\* String.prototype.toLowerCase on the characters that can reach it (the
\* Arabic block has no cased letter; the Latin capitals map to small letters).
LowerChar(c) == IF c >= 65 /\ c <= 90 THEN c + 32 ELSE c
ToLowerCase(s) == MapSeq(s, LowerChar)

\* s.split(/\s+/).filter(Boolean) : the maximal runs of non-space characters.
RECURSIVE SplitWords(_, _, _)
SplitWords(s, cur, acc) ==
    IF s = <<>> THEN (IF cur = <<>> THEN acc ELSE Append(acc, cur))
    ELSE IF IsSpace(Head(s))
         THEN SplitWords(Tail(s), <<>>, IF cur = <<>> THEN acc ELSE Append(acc, cur))
         ELSE SplitWords(Tail(s), Append(cur, Head(s)), acc)
Words(s) == SplitWords(s, <<>>, <<>>)

\* Array.prototype.join(" ").
RECURSIVE JoinSpace(_)
JoinSpace(ws) ==
    IF ws = <<>> THEN <<>>
    ELSE IF Len(ws) = 1 THEN ws[1]
    ELSE ws[1] \o <<SPACE>> \o JoinSpace(Tail(ws))

----------------------------------------------------------------------------
(* 1) normalizeArabic, part_004 lines 17-36.                               *)

InArabicBlock(c) == c >= 1536 /\ c <= 1791
IsTatweel(c) == c = TATWEEL
IsDiacritic(c) ==
    \/ (c >= 1552 /\ c <= 1562)
    \/ (c >= 1611 /\ c <= 1631)
    \/ (c >= 1750 /\ c <= 1773)
    \/ c = SUPERSCRIPT_ALEF
HamzaForms ==
    {ALEF_HAMZA_BELOW, ALEF_HAMZA_ABOVE, ALEF_MADDA, ALEF_WASLA, HAMZA, WAW_HAMZA, YEH_HAMZA}
\* Variant policy: the isolated hamza is left out of the class.
UnifyHamzaKeepIsolated(c) == IF c \in (HamzaForms \ {HAMZA}) THEN ALEF ELSE c
UnifyHamza(c) == IF c \in HamzaForms THEN ALEF ELSE c
MaksuraToYeh(c) == IF c = ALEF_MAKSURA THEN YEH ELSE c
MarbutaToHeh(c) == IF c = TEH_MARBUTA THEN HEH ELSE c
\* Variant: the class keeps the ASCII digits and punctuation.
NonArabicToSpaceKeepAscii(c) ==
    IF InArabicBlock(c) \/ IsSpace(c) \/ (c >= 33 /\ c <= 64) THEN c ELSE SPACE
NonArabicToSpace(c) == IF InArabicBlock(c) \/ IsSpace(c) THEN c ELSE SPACE

\* Variant: white space collapsed before the non-Arabic characters become spaces.
normalizeArabicCollapseFirst(text) ==
    LET s1 == DeleteAll(text, IsTatweel)
        s2 == DeleteAll(s1, IsDiacritic)
        s3 == MapSeq(s2, UnifyHamza)
        s4 == MapSeq(s3, MaksuraToYeh)
        s5 == MapSeq(s4, MarbutaToHeh)
        s6 == CollapseSpaces(s5)
        s7 == MapSeq(s6, NonArabicToSpace)
    IN  ToLowerCase(Trim(s7))

normalizeArabic(text) ==
    LET s1 == DeleteAll(text, IsTatweel)
        s2 == DeleteAll(s1, IsDiacritic)
        s3 == MapSeq(s2, UnifyHamza)
        s4 == MapSeq(s3, MaksuraToYeh)
        s5 == MapSeq(s4, MarbutaToHeh)
        s6 == MapSeq(s5, NonArabicToSpace)
        s7 == CollapseSpaces(s6)
    IN  ToLowerCase(Trim(s7))

(* normalizeArabic of src/src/QuranSearchApp.jsx, lines 17-31.             *)
AppIsDiacritic(c) ==
    \/ (c >= 1552 /\ c <= 1562)
    \/ (c >= 1611 /\ c <= 1631)
    \/ (c >= 1750 /\ c <= 1773)
AppAlefForms == {ALEF_HAMZA_BELOW, ALEF_HAMZA_ABOVE, ALEF_MADDA, ALEF}
AppUnifyAlef(c) == IF c \in AppAlefForms THEN ALEF ELSE c
AppWawHamza(c) == IF c = WAW_HAMZA THEN WAW ELSE c
AppYehHamza(c) == IF c = YEH_HAMZA THEN YEH ELSE c

AppNormalizeArabic(text) ==
    LET s1 == DeleteAll(text, IsTatweel)
        s2 == DeleteAll(s1, AppIsDiacritic)
        s3 == MapSeq(s2, AppUnifyAlef)
        s4 == MapSeq(s3, MaksuraToYeh)
        s5 == MapSeq(s4, AppWawHamza)
        s6 == MapSeq(s5, AppYehHamza)
        s7 == MapSeq(s6, MarbutaToHeh)
        s8 == MapSeq(s7, NonArabicToSpace)
        s9 == CollapseSpaces(s8)
    IN  ToLowerCase(Trim(s9))

----------------------------------------------------------------------------
(* 2) stripPrefixes / stripSuffixes / stripAffixes, part_004 lines 44-97.  *)

prefixes ==
    << <<WAW, ALEF, LAM>>, <<FEH, ALEF, LAM>>, <<BEH, ALEF, LAM>>, <<KAF, ALEF, LAM>>,
       <<LAM, LAM>>, <<ALEF, LAM>>, <<WAW>>, <<FEH>>, <<BEH>>, <<LAM>>, <<KAF>> >>
suffixes ==
    << <<HEH, MEEM, ALEF>>, <<HEH, MEEM>>, <<HEH, NOON>>, <<KAF, MEEM, ALEF>>,
       <<KAF, MEEM>>, <<KAF, NOON>>, <<NOON, ALEF>>, <<NOON, YEH>>, <<HEH, ALEF>>,
       <<HEH>>, <<KAF>>, <<TEH>> >>
PrefixLoops == 3
SuffixLoops == 2

\* Variant: a prefix is removed whenever it matches, whatever remains.
FirstPrefixAnyLength(w) ==
    LET ok == {k \in 1..Len(prefixes) : StartsWith(w, prefixes[k])}
    IN  IF ok = {} THEN 0 ELSE CHOOSE k \in ok : \A m \in ok : k <= m

\* The for-loop of one pass: the index of the first list entry that applies, 0 if none.
FirstPrefix(w) ==
    LET ok == {k \in 1..Len(prefixes) :
                   StartsWith(w, prefixes[k]) /\ Len(w) > Len(prefixes[k]) + 1}
    IN  IF ok = {} THEN 0 ELSE CHOOSE k \in ok : \A m \in ok : k <= m
FirstSuffix(w) ==
    LET ok == {k \in 1..Len(suffixes) :
                   EndsWith(w, suffixes[k]) /\ Len(w) > Len(suffixes[k]) + 1}
    IN  IF ok = {} THEN 0 ELSE CHOOSE k \in ok : \A m \in ok : k <= m

\* The while-loop: `loops` passes done so far.
RECURSIVE PrefixPasses(_, _)
PrefixPasses(w, loops) ==
    IF loops < PrefixLoops /\ FirstPrefix(w) # 0
    THEN PrefixPasses(SliceFrom(w, Len(prefixes[FirstPrefix(w)])), loops + 1)
    ELSE w
RECURSIVE SuffixPasses(_, _)
SuffixPasses(w, loops) ==
    IF loops < SuffixLoops /\ FirstSuffix(w) # 0
    THEN SuffixPasses(SliceDropLast(w, Len(suffixes[FirstSuffix(w)])), loops + 1)
    ELSE w

stripPrefixes(word) == IF Len(word) <= 2 THEN word ELSE PrefixPasses(word, 0)
stripSuffixes(word) == IF Len(word) <= 2 THEN word ELSE SuffixPasses(word, 0)
stripAffixes(word) ==
    IF Len(word) <= 2 THEN word ELSE stripSuffixes(stripPrefixes(word))

----------------------------------------------------------------------------
(* 3) levenshteinDistance / similarityScore, part_004 lines 103-130.       *)

\* Variant: the substitution term dp[i-1][j-1] + cost is left out of Math.min.
Min3NoSubstitution(x, y, z) == IF x <= y THEN x ELSE y

Min3(x, y, z) == IF x <= y /\ x <= z THEN x ELSE IF y <= z THEN y ELSE z

\* Row i of the dp table from row i-1; row holds dp[i][0..Len(row)-1].
RECURSIVE FillRow(_, _, _, _)
FillRow(ch, b, prev, row) ==
    IF Len(row) = Len(b) + 1 THEN row
    ELSE LET j == Len(row)
             cost == IF ch = b[j] THEN 0 ELSE 1
         IN  FillRow(ch, b, prev,
                     Append(row, Min3(prev[j + 1] + 1, row[j] + 1, prev[j] + cost)))
RECURSIVE DpRows(_, _, _, _)
DpRows(a, b, i, prev) ==
    IF i > Len(a) THEN prev
    ELSE DpRows(a, b, i + 1, FillRow(a[i], b, prev, <<i>>))

levenshteinDistance(a, b) ==
    IF Len(a) = 0 THEN Len(b)
    ELSE IF Len(b) = 0 THEN Len(a)
    ELSE DpRows(a, b, 1, [j \in 1..(Len(b) + 1) |-> j - 1])[Len(b) + 1]

\* Variant: without the empty-string returns of lines 123, 124 and 127.
similarityScoreNoEmptyCase(a, b) ==
    LET longer == IF Len(a) >= Len(b) THEN a ELSE b
        shorter == IF Len(a) >= Len(b) THEN b ELSE a
    IN  <<Len(longer) - levenshteinDistance(longer, shorter), Len(longer)>>

\* Variant: the distance is always related to the first argument.
similarityScoreFirstLength(a, b) ==
    IF a = <<>> /\ b = <<>> THEN <<1, 1>>
    ELSE IF a = <<>> \/ b = <<>> THEN <<0, 1>>
    ELSE <<Len(a) - levenshteinDistance(a, b), Len(a)>>

\* The returned number as the exact fraction <<numerator, denominator>>.
similarityScore(a, b) ==
    IF a = <<>> /\ b = <<>> THEN <<1, 1>>
    ELSE IF a = <<>> \/ b = <<>> THEN <<0, 1>>
    ELSE LET longer == IF Len(a) >= Len(b) THEN a ELSE b
             shorter == IF Len(a) >= Len(b) THEN b ELSE a
         IN  <<Len(longer) - levenshteinDistance(longer, shorter), Len(longer)>>

\* score >= pct/100 for a fraction score.
AtLeast(score, pct) == score[1] * 100 >= pct * score[2]

----------------------------------------------------------------------------
(* 4) doesTokenMatchAyah, part_004 lines 138-178.                          *)

quranRoots ==
    { <<QAF, REH, ALEF, NOON>>, <<QAF, REH, HAMZA, ALEF, NOON>>, <<QAF, REH, HAMZA>>,
      <<QAF, REH, YEH_HAMZA, ALEF, NOON>>, <<ALEF, LAM, QAF, REH, ALEF, NOON>>,
      <<ALEF, LAM, QAF, REH, HAMZA, ALEF, NOON>> }
quranWords ==
    { <<ALEF, LAM, QAF, REH, ALEF, NOON>>, <<QAF, REH, ALEF, NOON>>,
      <<QAF, REH, HAMZA, ALEF, NOON>>, <<ALEF, LAM, QAF, REH, HAMZA, ALEF, NOON>>,
      <<QAF, REH, HAMZA>> }
QuranThreshold == 92
ShortThreshold == 95
FuzzyThreshold == 88

ArrayIncludes(arr, x) == \E i \in 1..Len(arr) : arr[i] = x

IsQuranToken(tStripped) ==
    tStripped \in quranRoots \/ StartsWith(tStripped, <<QAF, REH, ALEF, NOON>>)

QuranRule(tStripped, ayWords) ==
    \E i \in 1..Len(ayWords) :
        \/ ayWords[i] \in quranWords
        \/ AtLeast(similarityScore(ayWords[i], tStripped), QuranThreshold)

\* Variant: the whole-word similarity is tested against 0.5.
ShortRuleHalfSimilar(t, ayWords) ==
    \/ ArrayIncludes(ayWords, t)
    \/ \E i \in 1..Len(ayWords) : AtLeast(similarityScore(ayWords[i], t), 50)

ShortRule(t, ayWords) ==
    \/ ArrayIncludes(ayWords, t)
    \/ \E i \in 1..Len(ayWords) : AtLeast(similarityScore(ayWords[i], t), ShortThreshold)

\* Variant: without the stripped-form rules of lines 171 and 175.
LongRuleRawOnly(t, tStripped, ayNorm, ayWords, ayWordsStripped) ==
    \/ Includes(ayNorm, t)
    \/ ArrayIncludes(ayWords, t)
    \/ \E i \in 1..Len(ayWords) : AtLeast(similarityScore(ayWords[i], t), FuzzyThreshold)

LongRule(t, tStripped, ayNorm, ayWords, ayWordsStripped) ==
    \/ Includes(ayNorm, t)
    \/ ArrayIncludes(ayWords, t)
    \/ ArrayIncludes(ayWordsStripped, tStripped)
    \/ \E i \in 1..Len(ayWords) : AtLeast(similarityScore(ayWords[i], t), FuzzyThreshold)
    \/ \E i \in 1..Len(ayWordsStripped) :
           AtLeast(similarityScore(ayWordsStripped[i], tStripped), FuzzyThreshold)

\* Variant: a Quran-root token the strict rule rejects goes on to the other rules.
doesTokenMatchAyahFallThrough(token, ayNorm, ayWords, ayWordsStripped) ==
    \/ IsQuranToken(token.stripped) /\ QuranRule(token.stripped, ayWords)
    \/ IF token.len <= 2 THEN ShortRule(token.raw, ayWords)
       ELSE LongRule(token.raw, token.stripped, ayNorm, ayWords, ayWordsStripped)

\* Variant: without the short-token branch of lines 155-161.
doesTokenMatchAyahNoShortRule(token, ayNorm, ayWords, ayWordsStripped) ==
    IF IsQuranToken(token.stripped) THEN QuranRule(token.stripped, ayWords)
    ELSE LongRule(token.raw, token.stripped, ayNorm, ayWords, ayWordsStripped)

doesTokenMatchAyah(token, ayNorm, ayWords, ayWordsStripped) ==
    IF IsQuranToken(token.stripped) THEN QuranRule(token.stripped, ayWords)
    ELSE IF token.len <= 2 THEN ShortRule(token.raw, ayWords)
    ELSE LongRule(token.raw, token.stripped, ayNorm, ayWords, ayWordsStripped)

----------------------------------------------------------------------------
(* 5) handleSearch, part_004 lines 231-290.                                *)
(*                                                                         *)
(* quranData is the nested object of quran.json: a sequence of surahs in   *)
(* Object.keys order, each [key, isObject, verses]; verses is the sequence *)
(* of the surah's entries in Object.keys order, each                       *)
(* [key, isNull, hasVerse, verse, surah, surah_name, ayah].                *)

Token(t) == [raw |-> t, stripped |-> stripAffixes(t), len |-> Len(t)]

\* lines 238-243
Tokens(qNorm) == MapSeq(Words(qNorm), Token)

\* Variant: only !verseData is tested.
SkippedNullOnly(verseData) == verseData.isNull

\* line 254: !verseData || !verseData.verse
Skipped(verseData) ==
    verseData.isNull \/ ~verseData.hasVerse \/ verseData.verse = <<>>

\* Variant: tokens.some instead of tokens.every.
AyahMatchesAny(tokens, verseData) ==
    LET ayNorm == normalizeArabic(verseData.verse)
        ayWords == Words(ayNorm)
        ayWordsStripped == MapSeq(ayWords, stripAffixes)
    IN  \E k \in 1..Len(tokens) :
            doesTokenMatchAyah(tokens[k], ayNorm, ayWords, ayWordsStripped)

\* Variant: only the first token is tested.
AyahMatchesFirst(tokens, verseData) ==
    LET ayNorm == normalizeArabic(verseData.verse)
        ayWords == Words(ayNorm)
        ayWordsStripped == MapSeq(ayWords, stripAffixes)
    IN  tokens = <<>> \/ doesTokenMatchAyah(tokens[1], ayNorm, ayWords, ayWordsStripped)

\* lines 256-262
AyahMatches(tokens, verseData) ==
    LET ayNorm == normalizeArabic(verseData.verse)
        ayWords == Words(ayNorm)
        ayWordsStripped == MapSeq(ayWords, stripAffixes)
    IN  \A k \in 1..Len(tokens) :
            doesTokenMatchAyah(tokens[k], ayNorm, ayWords, ayWordsStripped)

FoundEntry(verseData) ==
    [surah |-> verseData.surah, surahName |-> verseData.surah_name,
     ayah |-> verseData.ayah, text |-> verseData.verse]

\* lines 252-271: the inner forEach over one surah object
RECURSIVE SearchVerses(_, _, _)
SearchVerses(tokens, verses, found) ==
    IF verses = <<>> THEN found
    ELSE LET verseData == Head(verses)
         IN  SearchVerses(tokens, Tail(verses),
                 IF Skipped(verseData) THEN found
                 ELSE IF AyahMatches(tokens, verseData)
                      THEN Append(found, FoundEntry(verseData))
                      ELSE found)

\* lines 248-272: the outer forEach over the surahs
RECURSIVE SearchSurahs(_, _, _)
SearchSurahs(tokens, surahs, found) ==
    IF surahs = <<>> THEN found
    ELSE SearchSurahs(tokens, Tail(surahs),
             IF ~Head(surahs).isObject THEN found
             ELSE SearchVerses(tokens, Head(surahs).verses, found))

\* Variant: the stripped form is not looked for.
RECURSIVE ExactHitsRawOnly(_, _)
ExactHitsRawOnly(tokens, ayNorm) ==
    IF tokens = <<>> THEN 0
    ELSE ExactHitsRawOnly(SubSeq(tokens, 1, Len(tokens) - 1), ayNorm)
         + (IF Includes(ayNorm, tokens[Len(tokens)].raw) THEN 1 ELSE 0)

\* lines 280-283: tokens.reduce(...)
RECURSIVE ExactHits(_, _)
ExactHits(tokens, ayNorm) ==
    IF tokens = <<>> THEN 0
    ELSE ExactHits(SubSeq(tokens, 1, Len(tokens) - 1), ayNorm)
         + (IF \/ Includes(ayNorm, tokens[Len(tokens)].raw)
               \/ Includes(ayNorm, tokens[Len(tokens)].stripped)
            THEN 1 ELSE 0)

PhraseWeight == 100

\* Variant: the phrase bonus is left out of the score.
ScoredHitsOnly(f, qNorm, tokens) ==
    [surah |-> f.surah, surahName |-> f.surahName, ayah |-> f.ayah,
     text |-> f.text, score |-> ExactHits(tokens, normalizeArabic(f.text))]

\* lines 276-286: the map callback
Scored(f, qNorm, tokens) ==
    LET ayNorm == normalizeArabic(f.text)
        phraseMatch == IF Includes(ayNorm, qNorm) THEN 1 ELSE 0
    IN  [surah |-> f.surah, surahName |-> f.surahName, ayah |-> f.ayah,
         text |-> f.text, score |-> phraseMatch * PhraseWeight + ExactHits(tokens, ayNorm)]

\* Variant: an unstable sort, x put before the elements of equal score.
InsertByScoreUnstable(sorted, x) ==
    LET k == Cardinality({i \in 1..Len(sorted) : sorted[i].score > x.score})
    IN  SubSeq(sorted, 1, k) \o <<x>> \o SubSeq(sorted, k + 1, Len(sorted))

\* line 287: .sort((a, b) => b.score - a.score); Array.prototype.sort is stable.
\* x goes behind every element the comparator does not put after it.
InsertByScore(sorted, x) ==
    LET k == Cardinality({i \in 1..Len(sorted) : sorted[i].score >= x.score})
    IN  SubSeq(sorted, 1, k) \o <<x>> \o SubSeq(sorted, k + 1, Len(sorted))
RECURSIVE SortByScore(_)
SortByScore(list) ==
    IF list = <<>> THEN <<>>
    ELSE InsertByScore(SortByScore(SubSeq(list, 1, Len(list) - 1)), list[Len(list)])

\* lines 275-287
Ranked(found, qNorm, tokens) ==
    SortByScore([i \in 1..Len(found) |-> Scored(found[i], qNorm, tokens)])

\* Variant: the guard of line 233 tests !quranData only.
handleSearchNoBlankCheck(data, q) ==
    IF data = <<>> THEN <<>>
    ELSE LET qNorm == normalizeArabic(Trim(q))
             tokens == Tokens(qNorm)
         IN  Ranked(SearchSurahs(tokens, data[1], <<>>), qNorm, tokens)

\* The list handed to setResults for the state (data, q).
handleSearch(data, q) ==
    LET raw == Trim(q)
    IN  IF raw = <<>> \/ data = <<>> THEN <<>>
        ELSE LET qNorm == normalizeArabic(raw)
                 tokens == Tokens(qNorm)
             IN  Ranked(SearchSurahs(tokens, data[1], <<>>), qNorm, tokens)

----------------------------------------------------------------------------
(* Search of src/src/QuranSearchApp.jsx, lines 33-63 and 291-355.          *)
(*                                                                         *)
(* quran is the object of quran.json as this build reads it: a sequence of *)
(* surahs in Object.keys order, each [key, isArray, ayats]; an ayah is     *)
(* [hasText, text, verse].                                                 *)

levenshtein(a, b) ==
    IF Len(a) = 0 THEN Len(b)
    ELSE IF Len(b) = 0 THEN Len(a)
    ELSE DpRows(a, b, 1, [j \in 1..(Len(b) + 1) |-> j - 1])[Len(b) + 1]

AppSimilarityScore(s1, s2) ==
    LET longer == IF Len(s1) >= Len(s2) THEN s1 ELSE s2
        shorter == IF Len(s1) >= Len(s2) THEN s2 ELSE s1
    IN  IF Len(longer) = 0 THEN <<1, 1>>
        ELSE <<Len(longer) - levenshtein(longer, shorter), Len(longer)>>

AppWordThreshold == 80
AppPhraseThreshold == 82

\* lines 301-305
AppTokens(chipList, q) == chipList \o Words(AppNormalizeArabic(q))

\* lines 324-330: the callback of tokens.every
AppTokenMatches(tok, ayNorm) ==
    LET ayWords == Words(ayNorm)
    IN  \/ Includes(ayNorm, tok)
        \/ \E i \in 1..Len(ayWords) : Includes(ayWords[i], tok) \/ Includes(tok, ayWords[i])
        \/ \E i \in 1..Len(ayWords) :
               AtLeast(AppSimilarityScore(ayWords[i], tok), AppWordThreshold)

AyText(ay) == IF ay.hasText THEN ay.text ELSE <<>>

\* lines 323-333
AppAyahFound(tokens, ay) ==
    LET ayNorm == AppNormalizeArabic(AyText(ay))
        allMatch == \A k \in 1..Len(tokens) : AppTokenMatches(tokens[k], ayNorm)
        phraseSim == AppSimilarityScore(ayNorm, JoinSpace(tokens))
    IN  allMatch \/ AtLeast(phraseSim, AppPhraseThreshold)

RECURSIVE AppSearchAyats(_, _, _, _)
AppSearchAyats(tokens, surahKey, ayats, found) ==
    IF ayats = <<>> THEN found
    ELSE AppSearchAyats(tokens, surahKey, Tail(ayats),
             IF AppAyahFound(tokens, Head(ayats))
             THEN Append(found, [surah |-> surahKey, verse |-> Head(ayats).verse,
                                 text |-> AyText(Head(ayats)),
                                 norm |-> AppNormalizeArabic(AyText(Head(ayats)))])
             ELSE found)

RECURSIVE AppSearchSurahs(_, _, _)
AppSearchSurahs(tokens, surahs, found) ==
    IF surahs = <<>> THEN found
    ELSE AppSearchSurahs(tokens, Tail(surahs),
             IF ~Head(surahs).isArray THEN found
             ELSE AppSearchAyats(tokens, Head(surahs).key, Head(surahs).ayats, found))

RECURSIVE AppExactMatches(_, _)
AppExactMatches(tokens, norm) ==
    IF tokens = <<>> THEN 0
    ELSE AppExactMatches(Tail(tokens), norm) + (IF Includes(norm, Head(tokens)) THEN 1 ELSE 0)

\* lines 345-350: score = phraseSim * 0.7 + exactMatches * 0.3, as an exact fraction.
AppScored(f, tokens) ==
    LET phraseSim == AppSimilarityScore(f.norm, JoinSpace(tokens))
        exactMatches == AppExactMatches(tokens, f.norm)
    IN  [surah |-> f.surah, verse |-> f.verse, text |-> f.text, norm |-> f.norm,
         score |-> <<7 * phraseSim[1] + 3 * exactMatches * phraseSim[2], 10 * phraseSim[2]>>]

FracGeq(x, y) == x[1] * y[2] >= y[1] * x[2]

\* line 351: .sort((a, b) => b.score - a.score), stable.
AppInsertByScore(sorted, x) ==
    LET k == Cardinality({i \in 1..Len(sorted) : FracGeq(sorted[i].score, x.score)})
    IN  SubSeq(sorted, 1, k) \o <<x>> \o SubSeq(sorted, k + 1, Len(sorted))
RECURSIVE AppSortByScore(_)
AppSortByScore(list) ==
    IF list = <<>> THEN <<>>
    ELSE AppInsertByScore(AppSortByScore(SubSeq(list, 1, Len(list) - 1)), list[Len(list)])

\* lines 318-351
AppRanked(data, tokens) ==
    LET found == AppSearchSurahs(tokens, data, <<>>)
    IN  AppSortByScore([i \in 1..Len(found) |-> AppScored(found[i], tokens)])

----------------------------------------------------------------------------
(* Inputs: the texts, corpora and queries the model is run on.             *)

MaxVerses == 3    \* entries kept from the sample quran.json
MaxTokens == 2    \* words typed into the search box
MaxChips == 1     \* chips added in QuranSearchApp.jsx
MaxTextLen == 3   \* length of the strings given to normalizeArabic

LA == <<LAM, ALEF>>
RAYB == <<REH, YEH, BEH>>
FIHI == <<FEH, YEH, HEH>>
FA_ASQAYNAKUMUH == <<FEH, ALEF, SEEN, QAF, YEH, NOON, ALEF, KAF, MEEM, WAW, HEH>>
FA_ASQAYNAKUMUA == <<FEH, ALEF, SEEN, QAF, YEH, NOON, ALEF, KAF, MEEM, WAW, ALEF>>
AL_QURAN == <<ALEF, LAM, QAF, REH, ALEF_MADDA, NOON>>
BISMILLAH ==
    <<BEH, KASRA, SEEN, SUKUN, MEEM, KASRA, SPACE,
      ALEF, LAM, LAM, FATHA, SHADDA, HEH, KASRA>>
BISM_ALLAH == <<BEH, SEEN, MEEM, SPACE, ALEF, LAM, LAM, HEH>>

TextA == RAYB \o <<SPACE>> \o FIHI \o <<SPACE>> \o LA
TextB ==
    <<LAM, FATHA, ALEF, SPACE, REH, FATHA, YEH, SUKUN, BEH, FATHA, SPACE,
      FEH, KASRA, YEH, HEH, KASRA>>
TextC == LA \o <<SPACE>> \o FA_ASQAYNAKUMUH \o <<SPACE>> \o RAYB
TextD == AL_QURAN \o <<SPACE>> \o LA \o <<SPACE>> \o RAYB

Verse(s, a, t) ==
    [key |-> a, isNull |-> FALSE, hasVerse |-> TRUE, verse |-> t,
     surah |-> s, surah_name |-> s, ayah |-> a]
NoText(s, a) ==
    [key |-> a, isNull |-> FALSE, hasVerse |-> FALSE, verse |-> <<>>,
     surah |-> s, surah_name |-> s, ayah |-> a]
NullEntry(a) ==
    [key |-> a, isNull |-> TRUE, hasVerse |-> FALSE, verse |-> <<>>,
     surah |-> 0, surah_name |-> 0, ayah |-> 0]

\* A sample quran.json in the nested shape of part_004 lines 6 and 248-254, with
\* the malformed shapes the handler guards against.
SampleQuran ==
    << [key |-> 1, isObject |-> TRUE,
        verses |-> <<Verse(1, 1, TextA), NullEntry(2), Verse(1, 3, TextB), NoText(1, 4)>>],
       [key |-> 2, isObject |-> FALSE, verses |-> <<>>],
       [key |-> 3, isObject |-> TRUE,
        verses |-> <<Verse(3, 1, TextC), Verse(3, 2, TextD), Verse(3, 3, TextA),
                     Verse(3, 4, <<>>)>>] >>

Slots == {<<i, j>> : i \in 1..Len(SampleQuran), j \in 1..4}

\* The object with only the entries of `keep`.
SubCorpus(sample, keep) ==
    [i \in 1..Len(sample) |->
        [key |-> sample[i].key, isObject |-> sample[i].isObject,
         verses |-> SelectSeq(sample[i].verses, LAMBDA e : <<i, e.key>> \in keep)]]

Corpora ==
    {SubCorpus(SampleQuran, keep) :
        keep \in {k \in SUBSET Slots :
                     /\ Cardinality(k) <= MaxVerses
                     /\ \A sl \in k : sl[2] <= Len(SampleQuran[sl[1]].verses)}}

SeqsUpTo(S, n) == UNION {[1..k -> S] : k \in 1..n}

QueryWords == {LA, RAYB, FA_ASQAYNAKUMUA}
SpecialQueries ==
    { <<>>, <<SPACE, TAB>>, <<LATIN_SMALL_A, DIGIT_ONE, FULL_STOP>>,
      <<REH, FATHA, YEH, SUKUN, BEH>>, AL_QURAN, <<WAW>> \o RAYB,
      <<SPACE>> \o LA \o <<SPACE, SPACE>> \o RAYB \o <<SPACE>> }
Queries == {JoinSpace(ws) : ws \in SeqsUpTo(QueryWords, MaxTokens)} \cup SpecialQueries

Ayah(v, t) == [hasText |-> TRUE, text |-> t, verse |-> v]
AyahNoText(v) == [hasText |-> FALSE, text |-> <<>>, verse |-> v]

\* A sample quran.json in the shape QuranSearchApp.jsx lines 319-323 reads.
AppSampleQuran ==
    << [key |-> 1, isArray |-> TRUE,
        ayats |-> <<Ayah(1, TextB), Ayah(2, TextA), AyahNoText(3)>>],
       [key |-> 2, isArray |-> FALSE, ayats |-> <<>>],
       [key |-> 3, isArray |-> TRUE, ayats |-> <<Ayah(1, RAYB)>>] >>

AppSubCorpus(keep) ==
    [i \in 1..Len(AppSampleQuran) |->
        [key |-> AppSampleQuran[i].key, isArray |-> AppSampleQuran[i].isArray,
         ayats |-> SelectSeq(AppSampleQuran[i].ayats, LAMBDA e : <<i, e.verse>> \in keep)]]

AppCorpora ==
    {AppSubCorpus(keep) :
        keep \in {k \in SUBSET Slots :
                     /\ Cardinality(k) <= MaxVerses
                     /\ \A sl \in k : sl[2] <= Len(AppSampleQuran[sl[1]].ayats)}}

RAYB_FIHI_LAM == RAYB \o <<SPACE>> \o FIHI \o <<SPACE, LAM, MEEM>>
AppQueries ==
    { <<>>, <<SPACE, TAB>>, LA, RAYB, LA \o <<SPACE>> \o RAYB,
      <<LATIN_SMALL_A, DIGIT_ONE, FULL_STOP>>, RAYB_FIHI_LAM }

NormAlphabet ==
    { TATWEEL, FATHA, SUPERSCRIPT_ALEF, SIGN_SALLALLAHOU, SMALL_HIGH_LIGATURE_SAD, ALEF_HAMZA_BELOW, ALEF_HAMZA_ABOVE, ALEF_MADDA,
      ALEF_WASLA, HAMZA, WAW_HAMZA, YEH_HAMZA, ALEF, ALEF_MAKSURA, YEH, TEH_MARBUTA,
      HEH, WAW, BEH, SPACE, TAB, LATIN_CAPITAL_A, DIGIT_ONE, FULL_STOP,
      ARABIC_COMMA, ARABIC_ZERO }
NormInputs ==
    {<<>>, BISMILLAH, TextB, TextD, <<BEH, DIGIT_ONE, SPACE, BEH>>}
        \cup SeqsUpTo(NormAlphabet, MaxTextLen)
        \cup quranRoots \cup quranWords

----------------------------------------------------------------------------
(* The state machines.                                                     *)

CompInit ==
    /\ quranData = <<>>
    /\ query = <<>>
    /\ results = <<>>
    /\ loading = TRUE
    /\ error = "null"

AppInit ==
    /\ quran = <<>>
    /\ appQuery = <<>>
    /\ chips = <<>>
    /\ appResults = <<>>
    /\ appLoading = FALSE
    /\ message = "null"
    /\ tafseerText = "null"
    /\ fetchState = "pending"
    /\ audioUrl = <<>>
    /\ audioRef = 0
    /\ playing = {}
    /\ pendingPlay = {}
    /\ nextAudio = 1
    /\ pendingTafsir = {}
    /\ nextTafsir = 1
    /\ lastTafsir = <<>>
    /\ allWords = <<>>
    /\ suggestions = <<>>
    /\ timers = {}
    /\ suggestionTimer = <<>>

NoFrame == [w |-> <<>>, changed |-> FALSE, loops |-> 0]

FnInit == fn = "none" /\ args = <<>> /\ ret = <<>> /\ frame = NoFrame /\ pc = "idle"

Init ==
    /\ mounted \in {"part_004", "QuranSearchApp"}
    /\ CompInit
    /\ AppInit
    /\ FnInit

(* part_004 *)

\* lines 191-216, the try block completing: setQuranData(data); setError(null); then finally.
LoadSucceeds(data) ==
    /\ mounted = "part_004"
    /\ loading
    /\ quranData' = <<data>>
    /\ error' = "null"
    /\ loading' = FALSE
    /\ UNCHANGED <<asyncVars, mounted, query, results, appVars, fnVars>>

\* Variant: the catch block logs the error and sets no message.
LoadFailsSilently ==
    /\ mounted = "part_004"
    /\ loading
    /\ loading' = FALSE
    /\ UNCHANGED <<asyncVars, mounted, quranData, query, results, error, appVars, fnVars>>

\* lines 208-213, a fetch that rejects, a response that is not ok or a body that is not JSON.
LoadFails ==
    /\ mounted = "part_004"
    /\ loading
    /\ error' = "loadFailed"
    /\ loading' = FALSE
    /\ UNCHANGED <<asyncVars, mounted, quranData, query, results, appVars, fnVars>>

\* The search box and button are rendered only past the two early returns, lines 292-312.
SearchRendered == mounted = "part_004" /\ ~loading /\ error = "null"

\* line 329: onChange={(e) => setQuery(e.target.value)}
SetQuery(q) ==
    /\ SearchRendered
    /\ q # query
    /\ query' = q
    /\ UNCHANGED <<asyncVars, mounted, quranData, results, loading, error, appVars, fnVars>>

\* Variant: found is kept across calls, so the new matches follow the list on display.
HandleSearchAppending ==
    /\ SearchRendered
    /\ results' = results \o handleSearch(quranData, query)
    /\ UNCHANGED <<asyncVars, mounted, quranData, query, loading, error, appVars, fnVars>>

\* lines 231-290
HandleSearch ==
    /\ SearchRendered
    /\ results' = handleSearch(quranData, query)
    /\ UNCHANGED <<asyncVars, mounted, quranData, query, loading, error, appVars, fnVars>>

(* QuranSearchApp.jsx *)

(* QuranSearchApp.jsx: the word index and the auto-suggest effect, lines 125-170 *)

Range(seq) == {seq[i] : i \in 1..Len(seq)}

\* Array.prototype.sort without a comparator: by UTF-16 code units.
RECURSIVE LexLess(_, _)
LexLess(a, b) ==
    IF b = <<>> THEN FALSE
    ELSE IF a = <<>> THEN TRUE
    ELSE IF Head(a) # Head(b) THEN Head(a) < Head(b)
    ELSE LexLess(Tail(a), Tail(b))

RECURSIVE SortWords(_)
SortWords(S) ==
    IF S = {} THEN <<>>
    ELSE LET m == CHOOSE x \in S : \A y \in S \ {x} : LexLess(x, y)
         IN  <<m>> \o SortWords(S \ {m})

\* lines 126-137
AllWordsOf(data) ==
    SortWords(UNION {UNION {Range(Words(AppNormalizeArabic(AyText(data[i].ayats[j])))) :
                               j \in 1..Len(data[i].ayats)} :
                        i \in {k \in 1..Len(data) : data[k].isArray}})

SuggestionLimit == 12
SuggestionThreshold == 80

\* lines 154-158
Candidate(norm, w) ==
    [w |-> w, s |-> AppSimilarityScore(norm, w),
     starts |-> StartsWith(w, norm) \/ Includes(w, norm)]

\* lines 160-164: negative when a sorts before b.
CandidateBefore(a, b) ==
    IF a.starts /\ ~b.starts THEN TRUE
    ELSE IF ~a.starts /\ b.starts THEN FALSE
    ELSE b.s[1] * a.s[2] < a.s[1] * b.s[2]

InsertCandidate(sorted, x) ==
    LET k == Cardinality({i \in 1..Len(sorted) : ~CandidateBefore(x, sorted[i])})
    IN  SubSeq(sorted, 1, k) \o <<x>> \o SubSeq(sorted, k + 1, Len(sorted))
RECURSIVE SortCandidates(_)
SortCandidates(list) ==
    IF list = <<>> THEN <<>>
    ELSE InsertCandidate(SortCandidates(SubSeq(list, 1, Len(list) - 1)), list[Len(list)])

\* lines 152-166: the callback of the timer, with the query and the words it closed over.
Suggest(q, words) ==
    LET norm == AppNormalizeArabic(q)
        all == [i \in 1..Len(words) |-> Candidate(norm, words[i])]
        kept == SelectSeq(all, LAMBDA x : x.starts \/ AtLeast(x.s, SuggestionThreshold))
        sorted == SortCandidates(kept)
        top == SubSeq(sorted, 1, IF Len(sorted) < SuggestionLimit THEN Len(sorted)
                                 ELSE SuggestionLimit)
    IN  [i \in 1..Len(top) |-> top[i].w]

\* clearTimeout(suggestionTimer.current), lines 150 and 169.
ClearTimeoutNever(pending, ref) == pending
ClearTimeout(pending, ref) == pending \ Range(ref)

\* lines 142 and 146: the effect returns early.
SuggestOff(q, words) == Len(Trim(q)) < 2 \/ Len(words) = 0

\* lines 141-170: the effect runs because query or allWords changed; the cleanup of
\* the previous run comes first.
TimersAfterEffect(q, words) ==
    LET cleaned == ClearTimeout(timers, suggestionTimer)
    IN  IF SuggestOff(q, words) THEN cleaned
        ELSE ClearTimeout(cleaned, suggestionTimer) \cup {[query |-> q, words |-> words]}
LiveRef(ref, pending) == IF Range(ref) \subseteq pending THEN ref ELSE <<>>
RefAfterEffect(q, words) ==
    IF SuggestOff(q, words) THEN LiveRef(suggestionTimer, TimersAfterEffect(q, words))
    ELSE <<[query |-> q, words |-> words]>>
SuggestionsAfterEffect(q, words, now) == IF SuggestOff(q, words) THEN <<>> ELSE now

\* lines 108-115, then the effects of lines 126-137 and 141-170
AppLoadSucceeds(data) ==
    /\ mounted = "QuranSearchApp"
    /\ fetchState = "pending"
    /\ quran' = <<data>>
    /\ fetchState' = "done"
    /\ allWords' = AllWordsOf(data)
    /\ timers' = TimersAfterEffect(appQuery, AllWordsOf(data))
    /\ suggestionTimer' = RefAfterEffect(appQuery, AllWordsOf(data))
    /\ suggestions' = SuggestionsAfterEffect(appQuery, AllWordsOf(data), suggestions)
    /\ UNCHANGED <<audioVars, tafsirVars, mounted, compVars, appQuery, chips, appResults,
                   appLoading, message, tafseerText, fnVars>>

\* lines 116-122
AppLoadFails ==
    /\ mounted = "QuranSearchApp"
    /\ fetchState = "pending"
    /\ message' = "loadFailed"
    /\ quran' = <<>>
    /\ fetchState' = "failed"
    /\ UNCHANGED <<asyncVars, mounted, compVars, appQuery, chips, appResults, appLoading,
                   tafseerText, fnVars>>

\* line 400, then the effect of lines 141-170
AppSetQuery(q) ==
    /\ mounted = "QuranSearchApp"
    /\ q # appQuery
    /\ appQuery' = q
    /\ timers' = TimersAfterEffect(q, allWords)
    /\ suggestionTimer' = RefAfterEffect(q, allWords)
    /\ suggestions' = SuggestionsAfterEffect(q, allWords, suggestions)
    /\ UNCHANGED <<audioVars, tafsirVars, allWords, mounted, compVars, quran, chips,
                   appResults, appLoading, message, tafseerText, fetchState, fnVars>>

\* line 417 and lines 173-179: query.trim() && addChip(query.trim())
AppAddChip ==
    /\ mounted = "QuranSearchApp"
    /\ Trim(appQuery) # <<>>
    /\ LET w == AppNormalizeArabic(Trim(appQuery))
       IN  /\ w # <<>>
           /\ ArrayIncludes(chips, w) \/ Len(chips) < MaxChips
           /\ chips' = IF ArrayIncludes(chips, w) THEN chips ELSE Append(chips, w)
           /\ appQuery' = <<>>
    /\ suggestions' = <<>>
    /\ timers' = TimersAfterEffect(<<>>, allWords)
    /\ suggestionTimer' = RefAfterEffect(<<>>, allWords)
    /\ UNCHANGED <<audioVars, tafsirVars, allWords, mounted, compVars, quran, appResults,
                   appLoading, message, tafseerText, fetchState, fnVars>>

\* line 180
AppRemoveChip(word) ==
    /\ mounted = "QuranSearchApp"
    /\ ArrayIncludes(chips, word)
    /\ chips' = SelectSeq(chips, LAMBDA x : x # word)
    /\ UNCHANGED <<asyncVars, mounted, compVars, quran, appQuery, appResults, appLoading, message,
                   tafseerText, fetchState, fnVars>>

\* lines 291-355
AppHandleSearch ==
    /\ mounted = "QuranSearchApp"
    /\ tafseerText' = "null"
    /\ IF Trim(appQuery) = <<>> /\ Len(chips) = 0
       THEN /\ appResults' = <<>>
            /\ message' = "null"
            /\ appLoading' = appLoading
       ELSE LET tokens == AppTokens(chips, appQuery)
            IN  /\ appLoading' = FALSE
                /\ IF quran = <<>>
                   THEN appResults' = <<>> /\ message' = "notLoaded"
                   ELSE /\ message' = "null"
                        /\ appResults' =
                              IF tokens = <<>> THEN <<>> ELSE AppRanked(quran[1], tokens)
    /\ UNCHANGED <<asyncVars, mounted, compVars, quran, appQuery, chips, fetchState, fnVars>>

(* QuranSearchApp.jsx: recitation audio, lines 230-288, 357-369, 493-501 *)

MaxPlays == 2   \* clicks on a play button

FetchOutcomes == {"found", "notFound", "throws"}

\* lines 270-275: playAyah up to its await.
PlayAyah(i) ==
    /\ mounted = "QuranSearchApp"
    /\ i \in 1..Len(appResults)
    /\ nextAudio <= MaxPlays
    /\ playing' = playing \ {audioRef}
    /\ audioRef' = 0
    /\ audioUrl' = <<>>
    /\ message' = "null"
    /\ pendingPlay' = pendingPlay \cup
           {[id |-> nextAudio, key |-> <<appResults[i].surah, appResults[i].verse>>,
             pc |-> "try1"]}
    /\ nextAudio' = nextAudio + 1
    /\ UNCHANGED <<tafsirVars, suggestVars, mounted, compVars, fnVars, quran, appQuery,
                   chips, appResults,
                   appLoading, tafseerText, fetchState>>

\* lines 231-266 and 276-287: one of the two fetches of fetchAudioUrl settles; with
\* a url playAyah goes on: setAudioUrl, new Audio, audioRef.current = a, a.play(),
\* which the browser allows or rejects; without one the second fetch follows, then
\* null and the message of line 277.
AudioFetchSettles(req, outcome, allowed) ==
    /\ mounted = "QuranSearchApp"
    /\ req \in pendingPlay
    /\ IF outcome = "found"
       THEN /\ pendingPlay' = pendingPlay \ {req}
            /\ audioUrl' = <<req.key>>
            /\ audioRef' = req.id
            /\ playing' = IF allowed THEN playing \cup {req.id} ELSE playing
            /\ message' = IF allowed THEN message ELSE "playFailed"
       ELSE IF req.pc = "try1"
       THEN /\ pendingPlay' = (pendingPlay \ {req}) \cup {[req EXCEPT !.pc = "try2"]}
            /\ UNCHANGED <<audioUrl, audioRef, playing, message>>
       ELSE /\ pendingPlay' = pendingPlay \ {req}
            /\ message' = "noAudio"
            /\ UNCHANGED <<audioUrl, audioRef, playing>>
    /\ UNCHANGED <<tafsirVars, suggestVars, mounted, compVars, fnVars, quran, appQuery,
                   chips, appResults,
                   appLoading, tafseerText, fetchState, nextAudio>>

\* An Audio object created at line 281 reaches the end of its file.
AudioObjectEnds(id) ==
    /\ mounted = "QuranSearchApp"
    /\ id \in playing
    /\ playing' = playing \ {id}
    /\ UNCHANGED <<tafsirVars, suggestVars, mounted, compVars, fnVars, appVars, audioUrl,
                   audioRef, pendingPlay,
                   nextAudio>>

\* line 495: onEnded={() => setAudioUrl(null)} of the audio element.
AudioElementEnds ==
    /\ mounted = "QuranSearchApp"
    /\ audioUrl # <<>>
    /\ audioUrl' = <<>>
    /\ UNCHANGED <<tafsirVars, suggestVars, mounted, compVars, fnVars, appVars, audioRef,
                   playing, pendingPlay,
                   nextAudio>>

\* line 498: the stop button, rendered while audioUrl is set.
StopAudio ==
    /\ mounted = "QuranSearchApp"
    /\ audioUrl # <<>>
    /\ playing' = playing \ {audioRef}
    /\ audioUrl' = <<>>
    /\ UNCHANGED <<tafsirVars, suggestVars, mounted, compVars, fnVars, appVars, audioRef,
                   pendingPlay, nextAudio>>

(* QuranSearchApp.jsx: the tafsir button, lines 194-228 and 478 *)

MaxTafsir == 2   \* clicks on a tafsir button

TafsirText(key) == "tafsir " \o ToString(key[1]) \o ":" \o ToString(key[2])

\* line 478: the click up to its await.
RequestTafsir(i) ==
    /\ mounted = "QuranSearchApp"
    /\ i \in 1..Len(appResults)
    /\ nextTafsir <= MaxTafsir
    /\ tafseerText' = "loading"
    /\ pendingTafsir' = pendingTafsir \cup
           {[id |-> nextTafsir, key |-> <<appResults[i].surah, appResults[i].verse>>,
             pc |-> "try1"]}
    /\ lastTafsir' = <<<<appResults[i].surah, appResults[i].verse>>>>
    /\ nextTafsir' = nextTafsir + 1
    /\ UNCHANGED <<audioVars, suggestVars, mounted, compVars, fnVars, quran, appQuery, chips,
                   appResults, appLoading, message, fetchState>>

\* lines 199-227 and the rest of line 478: one of the two fetches of fetchTafsir
\* settles; a text found is returned and shown, a failure of the first fetch leads to
\* the second, a failure of the second to the text of line 227.
TafsirFetchRejects(req, outcome) ==
    /\ mounted = "QuranSearchApp"
    /\ req \in pendingTafsir
    /\ req.pc \in {"try1", "try2"}
    /\ IF outcome = "found"
       THEN /\ pendingTafsir' = pendingTafsir \ {req}
            /\ tafseerText' = TafsirText(req.key)
       ELSE IF outcome = "throws"
       THEN /\ pendingTafsir' = (pendingTafsir \ {req}) \cup {[req EXCEPT !.pc = "rejected"]}
            /\ tafseerText' = tafseerText
       ELSE IF req.pc = "try1"
       THEN /\ pendingTafsir' = (pendingTafsir \ {req}) \cup {[req EXCEPT !.pc = "try2"]}
            /\ tafseerText' = tafseerText
       ELSE /\ pendingTafsir' = pendingTafsir \ {req}
            /\ tafseerText' = "fallback"
    /\ UNCHANGED <<audioVars, suggestVars, mounted, compVars, fnVars, quran, appQuery, chips,
                   appResults, appLoading, message, fetchState, nextTafsir, lastTafsir>>
TafsirFetchSettles(req, outcome) ==
    /\ mounted = "QuranSearchApp"
    /\ req \in pendingTafsir
    /\ req.pc \in {"try1", "try2"}
    /\ IF outcome = "found"
       THEN /\ pendingTafsir' = pendingTafsir \ {req}
            /\ tafseerText' = TafsirText(req.key)
       ELSE IF req.pc = "try1"
       THEN /\ pendingTafsir' = (pendingTafsir \ {req}) \cup {[req EXCEPT !.pc = "try2"]}
            /\ tafseerText' = tafseerText
       ELSE /\ pendingTafsir' = pendingTafsir \ {req}
            /\ tafseerText' = "fallback"
    /\ UNCHANGED <<audioVars, suggestVars, mounted, compVars, fnVars, quran, appQuery, chips,
                   appResults, appLoading, message, fetchState, nextTafsir, lastTafsir>>

\* lines 357-369, then the effect of lines 141-170 if the query changed
AppClearAll ==
    /\ mounted = "QuranSearchApp"
    /\ appQuery' = <<>>
    /\ chips' = <<>>
    /\ suggestions' = <<>>
    /\ appResults' = <<>>
    /\ tafseerText' = "null"
    /\ audioUrl' = <<>>
    /\ message' = "null"
    /\ playing' = playing \ {audioRef}
    /\ audioRef' = 0
    /\ timers' = IF appQuery = <<>> THEN timers ELSE TimersAfterEffect(<<>>, allWords)
    /\ suggestionTimer' =
           IF appQuery = <<>> THEN suggestionTimer ELSE RefAfterEffect(<<>>, allWords)
    /\ UNCHANGED <<mounted, compVars, fnVars, quran, appLoading, fetchState, pendingPlay,
                   nextAudio, tafsirVars, allWords>>

\* line 409 and lines 173-179: a click on a suggestion
AppAddSuggestion(word) ==
    /\ mounted = "QuranSearchApp"
    /\ ArrayIncludes(suggestions, word)
    /\ LET w == AppNormalizeArabic(word)
       IN  /\ w # <<>>
           /\ ArrayIncludes(chips, w) \/ Len(chips) < MaxChips
           /\ chips' = IF ArrayIncludes(chips, w) THEN chips ELSE Append(chips, w)
    /\ appQuery' = <<>>
    /\ suggestions' = <<>>
    /\ timers' = IF appQuery = <<>> THEN timers ELSE TimersAfterEffect(<<>>, allWords)
    /\ suggestionTimer' =
           IF appQuery = <<>> THEN suggestionTimer ELSE RefAfterEffect(<<>>, allWords)
    /\ UNCHANGED <<audioVars, tafsirVars, allWords, mounted, compVars, quran, appResults,
                   appLoading, message, tafseerText, fetchState, fnVars>>

\* lines 151-167: the timer fires, 140 ms after it was set.
SuggestionTimerFires(t) ==
    /\ mounted = "QuranSearchApp"
    /\ t \in timers
    /\ suggestions' = Suggest(t.query, t.words)
    /\ timers' = timers \ {t}
    /\ suggestionTimer' = LiveRef(suggestionTimer, timers \ {t})
    /\ UNCHANGED <<audioVars, tafsirVars, allWords, mounted, compVars, appVars, fnVars>>

Next ==
    \/ \E data \in Corpora : LoadSucceeds(data)
    \/ LoadFails
    \/ \E q \in Queries : SetQuery(q)
    \/ HandleSearch
    \/ \E data \in AppCorpora : AppLoadSucceeds(data)
    \/ AppLoadFails
    \/ \E q \in AppQueries : AppSetQuery(q)
    \/ AppAddChip
    \/ \E w \in AppQueries : AppRemoveChip(w)
    \/ AppHandleSearch

Spec == Init /\ [][Next]_vars

(* QuranSearchApp.jsx with its network requests: corpus, tafsir, audio. *)
MediaQueries == {<<>>, RAYB}
MediaInit == Init /\ mounted = "QuranSearchApp"
MediaNext ==
    \/ AppLoadSucceeds(AppSampleQuran)
    \/ AppLoadFails
    \/ \E q \in MediaQueries : AppSetQuery(q)
    \/ AppHandleSearch
    \/ \E i \in 1..Len(appResults) : PlayAyah(i)
    \/ \E req \in pendingPlay, outcome \in FetchOutcomes, allowed \in BOOLEAN :
           AudioFetchSettles(req, outcome, allowed)
    \/ \E id \in playing : AudioObjectEnds(id)
    \/ AudioElementEnds
    \/ StopAudio
    \/ \E i \in 1..Len(appResults) : RequestTafsir(i)
    \/ \E req \in pendingTafsir, outcome \in FetchOutcomes : TafsirFetchSettles(req, outcome)
    \/ AppClearAll
SpecMedia == MediaInit /\ [][MediaNext]_vars

(* QuranSearchApp.jsx with its suggestion timer. *)
SuggestQueries ==
    { <<>>, <<REH>>, <<REH, SPACE>>, <<REH, YEH>>, RAYB, LA, FIHI, <<SPACE, TAB>> }
SuggestInit == Init /\ mounted = "QuranSearchApp"
SuggestNext ==
    \/ \E data \in {AppSampleQuran, AppSubCorpus({})} : AppLoadSucceeds(data)
    \/ AppLoadFails
    \/ \E q \in SuggestQueries : AppSetQuery(q)
    \/ AppAddChip
    \/ \E w \in Range(suggestions) : AppAddSuggestion(w)
    \/ \E w \in Range(chips) : AppRemoveChip(w)
    \/ \E t \in timers : SuggestionTimerFires(t)
    \/ AppClearAll
SpecSuggest == SuggestInit /\ [][SuggestNext]_vars

\* Every fetch settles: the promise awaited at lines 195-205 resolves or rejects.
SpecLive == Spec /\ WF_vars((\E data \in Corpora : LoadSucceeds(data)) \/ LoadFails)

(* normalizeArabic applied to a text *)

NormInit ==
    /\ mounted = "harness"
    /\ CompInit
    /\ AppInit
    /\ fn = "none"
    /\ args \in {<<t>> : t \in NormInputs}
    /\ ret = <<>>
    /\ frame = NoFrame
    /\ pc = "idle"

CallNormalizeArabic ==
    /\ mounted = "harness"
    /\ fn = "none"
    /\ fn' = "normalizeArabic"
    /\ ret' = normalizeArabic(args[1])
    /\ UNCHANGED <<asyncVars, mounted, compVars, appVars, args, frame, pc>>

CallAppNormalizeArabic ==
    /\ mounted = "harness"
    /\ fn = "none"
    /\ fn' = "AppNormalizeArabic"
    /\ ret' = AppNormalizeArabic(args[1])
    /\ UNCHANGED <<asyncVars, mounted, compVars, appVars, args, frame, pc>>

NormNext == CallNormalizeArabic \/ CallAppNormalizeArabic

SpecNorm == NormInit /\ [][NormNext]_vars

(* stripPrefixes / stripSuffixes / stripAffixes run step by step,          *)
(* part_004 lines 44-97: one step per pass of a while loop.                *)

MaxWordLen == 4   \* length of the words given to the strip functions

StripAlphabet == {WAW, LAM, ALEF, HEH, KAF, REH}
StripInputs ==
    { <<>>, FA_ASQAYNAKUMUH,
      <<WAW, FEH, BEH, LAM, REH, REH>>,
      <<REH, REH, TEH, KAF, HEH>>,
      <<WAW, ALEF, LAM, REH, REH, HEH, MEEM, ALEF>> }
        \cup SeqsUpTo(StripAlphabet, MaxWordLen)

StripFunctions == {"stripPrefixes", "stripSuffixes", "stripAffixes"}

StripInit ==
    /\ mounted = "harness"
    /\ CompInit
    /\ AppInit
    /\ fn = "none"
    /\ args \in {<<word>> : word \in StripInputs}
    /\ ret = <<>>
    /\ frame = NoFrame
    /\ pc = "idle"

\* lines 45-53, 69-75, 92-94: the two guards, then the locals of the first loop.
CallStrip(f) ==
    /\ mounted = "harness"
    /\ pc = "idle"
    /\ fn' = f
    /\ IF Len(args[1]) <= 2
       THEN /\ ret' = args[1]
            /\ pc' = "done"
            /\ frame' = frame
       ELSE /\ ret' = ret
            /\ frame' = [w |-> args[1], changed |-> TRUE, loops |-> 0]
            /\ pc' = IF f = "stripSuffixes" THEN "suffixLoop" ELSE "prefixLoop"
    /\ UNCHANGED <<asyncVars, mounted, compVars, appVars, args>>

\* Variant: loops counts only the passes that removed nothing.
PrefixPassUncounted ==
    /\ pc = "prefixLoop"
    /\ frame.changed /\ frame.loops < PrefixLoops
    /\ LET k == FirstPrefix(frame.w)
       IN  frame' = [w |-> IF k # 0 THEN SliceFrom(frame.w, Len(prefixes[k])) ELSE frame.w,
                     changed |-> k # 0,
                     loops |-> IF k # 0 THEN frame.loops ELSE frame.loops + 1]
    /\ UNCHANGED <<asyncVars, mounted, compVars, appVars, fn, args, ret, pc>>

\* lines 54-64: one pass of the while loop of stripPrefixes.
PrefixPass ==
    /\ pc = "prefixLoop"
    /\ frame.changed /\ frame.loops < PrefixLoops
    /\ LET k == FirstPrefix(frame.w)
       IN  frame' = [w |-> IF k # 0 THEN SliceFrom(frame.w, Len(prefixes[k])) ELSE frame.w,
                     changed |-> k # 0,
                     loops |-> frame.loops + 1]
    /\ UNCHANGED <<asyncVars, mounted, compVars, appVars, fn, args, ret, pc>>

\* line 65: return w; in stripAffixes line 95 then calls stripSuffixes(withoutPrefix),
\* whose guard is line 70.
PrefixReturn ==
    /\ pc = "prefixLoop"
    /\ ~(frame.changed /\ frame.loops < PrefixLoops)
    /\ IF fn = "stripPrefixes" \/ Len(frame.w) <= 2
       THEN /\ ret' = frame.w
            /\ pc' = "done"
            /\ frame' = frame
       ELSE /\ ret' = ret
            /\ frame' = [w |-> frame.w, changed |-> TRUE, loops |-> 0]
            /\ pc' = "suffixLoop"
    /\ UNCHANGED <<asyncVars, mounted, compVars, appVars, fn, args>>

\* lines 76-86: one pass of the while loop of stripSuffixes.
SuffixPass ==
    /\ pc = "suffixLoop"
    /\ frame.changed /\ frame.loops < SuffixLoops
    /\ LET k == FirstSuffix(frame.w)
       IN  frame' = [w |-> IF k # 0 THEN SliceDropLast(frame.w, Len(suffixes[k]))
                                     ELSE frame.w,
                     changed |-> k # 0,
                     loops |-> frame.loops + 1]
    /\ UNCHANGED <<asyncVars, mounted, compVars, appVars, fn, args, ret, pc>>

\* line 87: return w (line 96 in stripAffixes).
SuffixReturn ==
    /\ pc = "suffixLoop"
    /\ ~(frame.changed /\ frame.loops < SuffixLoops)
    /\ ret' = frame.w
    /\ pc' = "done"
    /\ UNCHANGED <<asyncVars, mounted, compVars, appVars, fn, args, frame>>

StripNext ==
    \/ \E f \in StripFunctions : CallStrip(f)
    \/ PrefixPass
    \/ PrefixReturn
    \/ SuffixPass
    \/ SuffixReturn

SpecStrip == StripInit /\ [][StripNext]_vars

\* A call that has started runs on: nothing else is scheduled between the passes.
SpecStripLive == SpecStrip /\ WF_vars(PrefixPass) /\ WF_vars(PrefixReturn)
                           /\ WF_vars(SuffixPass) /\ WF_vars(SuffixReturn)
                           /\ WF_vars(\E f \in StripFunctions : CallStrip(f))

(* levenshteinDistance and similarityScore applied to two strings.         *)

MaxSimLen == 3   \* length of the strings given to the similarity functions

SimAlphabet == {ALEF, BEH, LAM}
SimInputs == {<<>>} \cup SeqsUpTo(SimAlphabet, MaxSimLen)

SimInit ==
    /\ mounted = "harness"
    /\ CompInit
    /\ AppInit
    /\ fn = "none"
    /\ args \in {<<a, b>> : a \in SimInputs, b \in SimInputs}
    /\ ret = <<>>
    /\ frame = NoFrame
    /\ pc = "idle"

CallLevenshteinDistance ==
    /\ mounted = "harness"
    /\ fn = "none"
    /\ fn' = "levenshteinDistance"
    /\ ret' = levenshteinDistance(args[1], args[2])
    /\ UNCHANGED <<asyncVars, mounted, compVars, appVars, args, frame, pc>>

CallSimilarityScore ==
    /\ mounted = "harness"
    /\ fn = "none"
    /\ fn' = "similarityScore"
    /\ ret' = similarityScore(args[1], args[2])
    /\ UNCHANGED <<asyncVars, mounted, compVars, appVars, args, frame, pc>>

SimNext == CallLevenshteinDistance \/ CallSimilarityScore

SpecSim == SimInit /\ [][SimNext]_vars

(* doesTokenMatchAyah applied to one query word and one verse, as          *)
(* handleSearch calls it (part_004 lines 238-262).                         *)

YASIN == <<YEH, SEEN>>
ALIF_LAM_MIM == <<ALEF, LAM, MEEM>>
QURANHUM == <<QAF, REH, ALEF, NOON, HEH, MEEM>>
QURUN == <<QAF, REH, WAW, NOON>>
MIN == <<MEEM, NOON>>
WA_RAYB == <<WAW>> \o RAYB
YASAA == <<YEH, SEEN, AIN, ALEF_MAKSURA>>
AL_AALAMIN == <<ALEF, LAM, AIN, ALEF, LAM, MEEM, YEH, NOON>>

MatchTokens ==
    { YASIN, ALIF_LAM_MIM, AL_QURAN, QURANHUM, QURUN, MIN, LA, RAYB, WA_RAYB, FIHI,
      FA_ASQAYNAKUMUA }
MatchVerses ==
    { YASIN, LA \o <<SPACE>> \o YASAA, <<REH, BEH, SPACE>> \o AL_AALAMIN,
      MIN \o <<SPACE, ALEF, LAM>> \o QURUN, TextD, QURANHUM \o <<SPACE>> \o FIHI,
      TextA, TextB, TextC, ALIF_LAM_MIM, <<WAW>> \o MIN \o <<SPACE>> \o RAYB }

MatchInit ==
    /\ mounted = "harness"
    /\ CompInit
    /\ AppInit
    /\ fn = "none"
    /\ args \in {<<t, v>> : t \in MatchTokens, v \in MatchVerses}
    /\ ret = <<>>
    /\ frame = NoFrame
    /\ pc = "idle"

\* lines 238-243 for the query word, lines 256-259 for the verse, then the call of line 262.
CallDoesTokenMatchAyah ==
    /\ mounted = "harness"
    /\ fn = "none"
    /\ fn' = "doesTokenMatchAyah"
    /\ LET tokens == Tokens(normalizeArabic(args[1]))
           ayNorm == normalizeArabic(args[2])
           ayWords == Words(ayNorm)
           ayWordsStripped == MapSeq(ayWords, stripAffixes)
       IN  ret' = doesTokenMatchAyah(tokens[1], ayNorm, ayWords, ayWordsStripped)
    /\ UNCHANGED <<asyncVars, mounted, compVars, appVars, args, frame, pc>>

MatchNext == CallDoesTokenMatchAyah

SpecMatch == MatchInit /\ [][MatchNext]_vars

(* handleSearch of part_004 applied to one corpus and two queries.         *)

PairCorpora ==
    {SubCorpus(SampleQuran, keep) :
        keep \in {k \in SUBSET Slots :
                     /\ Cardinality(k) <= 1
                     /\ \A sl \in k : sl[2] <= Len(SampleQuran[sl[1]].verses)}}
        \cup {SampleQuran}

PairInit ==
    /\ mounted = "harness"
    /\ CompInit
    /\ AppInit
    /\ fn = "none"
    /\ args \in {<<c, q1, q2>> : c \in PairCorpora, q1 \in Queries, q2 \in Queries}
    /\ ret = <<>>
    /\ frame = NoFrame
    /\ pc = "idle"

\* Two searches on the same loaded corpus, lines 231-290 twice.
CallHandleSearchPair ==
    /\ mounted = "harness"
    /\ fn = "none"
    /\ fn' = "handleSearch"
    /\ ret' = <<handleSearch(<<args[1]>>, args[2]), handleSearch(<<args[1]>>, args[3])>>
    /\ UNCHANGED <<asyncVars, mounted, compVars, appVars, args, frame, pc>>

PairNext == CallHandleSearchPair

SpecPair == PairInit /\ [][PairNext]_vars

(* escapeHtml and highlightAyah of src/src/QuranSearchApp.jsx, lines 65-90. *)

AMPERSAND == 38
LESS_THAN == 60
GREATER_THAN == 62
AmpEntity == <<38, 97, 109, 112, 59>>      \* "&amp;"
LtEntity == <<38, 108, 116, 59>>           \* "&lt;"
GtEntity == <<38, 103, 116, 59>>           \* "&gt;"
\* '<span class="match-glow">' and '</span>'
SpanOpen ==
    <<60, 115, 112, 97, 110, 32, 99, 108, 97, 115, 115, 61, 34,
      109, 97, 116, 99, 104, 45, 103, 108, 111, 119, 34, 62>>
SpanClose == <<60, 47, 115, 112, 97, 110, 62>>

\* String.prototype.replace with a one-character global pattern.
RECURSIVE ReplaceAll(_, _, _)
ReplaceAll(str, c, by) ==
    IF str = <<>> THEN <<>>
    ELSE (IF Head(str) = c THEN by ELSE <<Head(str)>>) \o ReplaceAll(Tail(str), c, by)

\* lines 65-70
escapeHtml(str) ==
    ReplaceAll(ReplaceAll(ReplaceAll(str, AMPERSAND, AmpEntity), LESS_THAN, LtEntity),
               GREATER_THAN, GtEntity)

\* line 76: split(/(\s+)/) -- words and the white space between them, in turn; the
\* first and the last part are words, empty when the text starts or ends with
\* white space.
RECURSIVE SplitKeep(_, _, _, _)
SplitKeep(str, cur, inSpace, acc) ==
    IF str = <<>> THEN (IF inSpace THEN acc \o <<cur, <<>>>> ELSE Append(acc, cur))
    ELSE IF IsSpace(Head(str)) = inSpace
         THEN SplitKeep(Tail(str), Append(cur, Head(str)), inSpace, acc)
         ELSE SplitKeep(Tail(str), <<Head(str)>>, ~inSpace, Append(acc, cur))

HighlightThreshold == 85

\* lines 79-82
PartMatches(part, tokens) ==
    LET norm == AppNormalizeArabic(part)
    IN  \E k \in 1..Len(tokens) :
            /\ tokens[k] # <<>>
            /\ \/ Includes(norm, tokens[k])
               \/ AtLeast(AppSimilarityScore(norm, tokens[k]), HighlightThreshold)

\* lines 83-86
HighlightPartRaw(part, tokens) ==
    IF PartMatches(part, tokens) /\ Len(Trim(part)) > 0
    THEN SpanOpen \o part \o SpanClose
    ELSE escapeHtml(part)
HighlightPart(part, tokens) ==
    IF PartMatches(part, tokens) /\ Len(Trim(part)) > 0
    THEN SpanOpen \o escapeHtml(part) \o SpanClose
    ELSE escapeHtml(part)

RECURSIVE JoinParts(_)
JoinParts(parts) == IF parts = <<>> THEN <<>> ELSE Head(parts) \o JoinParts(Tail(parts))

\* lines 73-90
highlightAyah(ayahText, tokens) ==
    IF Len(tokens) = 0 THEN escapeHtml(ayahText)
    ELSE LET parts == SplitKeep(ayahText, <<>>, FALSE, <<>>)
         IN  JoinParts([i \in 1..Len(parts) |-> HighlightPart(parts[i], tokens)])

MaxHighlightLen == 4   \* length of the verse texts given to highlightAyah

HighlightAlphabet == {AMPERSAND, LESS_THAN, GREATER_THAN, SPACE, BEH}
HighlightTexts ==
    {<<>>, AmpEntity, LtEntity \o <<BEH>>, RAYB \o <<TAB, SPACE>> \o LA \o <<AMPERSAND>>,
     <<SPACE, LESS_THAN>> \o RAYB \o <<GREATER_THAN, SPACE>>}
        \cup SeqsUpTo(HighlightAlphabet, MaxHighlightLen)
\* line 471: [...chips, ...(query ? normalizeArabic(query).split(/\s+/) : [])]
HighlightTokens == {<<>>, <<<<>>>>, <<<<BEH>>>>, <<RAYB, LA>>}

HighlightInit ==
    /\ mounted = "harness"
    /\ CompInit
    /\ AppInit
    /\ fn = "none"
    /\ args \in {<<t, toks>> : t \in HighlightTexts, toks \in HighlightTokens}
    /\ ret = <<>>
    /\ frame = NoFrame
    /\ pc = "idle"

CallHighlightAyah ==
    /\ mounted = "harness"
    /\ fn = "none"
    /\ fn' = "highlightAyah"
    /\ ret' = highlightAyah(args[1], args[2])
    /\ UNCHANGED <<asyncVars, mounted, compVars, appVars, args, frame, pc>>

HighlightNext == CallHighlightAyah

SpecHighlight == HighlightInit /\ [][HighlightNext]_vars

----------------------------------------------------------------------------
(* Properties of handleSearch (part_004).                                  *)

\* A step of the search handler.
SearchStep == UNCHANGED <<query, quranData>> /\ HandleSearch

QNorm(q) == normalizeArabic(Trim(q))
TokenCount(q) == Len(Tokens(QNorm(q)))

\* The entries of the loaded object, in iteration order.
RECURSIVE Flatten(_)
Flatten(surahs) ==
    IF surahs = <<>> THEN <<>>
    ELSE (IF Head(surahs).isObject THEN Head(surahs).verses ELSE <<>>) \o Flatten(Tail(surahs))
EntrySet(data) == {Flatten(data[1])[i] : i \in 1..Len(Flatten(data[1]))}

Malformed(e) == e.isNull \/ ~e.hasVerse \/ Len(e.verse) = 0
Ids(list) == {<<list[i].surah, list[i].ayah>> : i \in 1..Len(list)}
Before(x, y) == x.surah < y.surah \/ (x.surah = y.surah /\ x.ayah < y.ayah)
IsPhraseMatch(r, q) == Includes(normalizeArabic(r.text), QNorm(q))
Published == results = handleSearch(quranData, query)

\* The verses with text that every token of q matches.
MatchingIds(data, q) ==
    {<<e.surah, e.ayah>> : e \in
        {e \in EntrySet(data) :
            /\ ~Malformed(e)
            /\ LET ayNorm == normalizeArabic(e.verse)
                   ayWords == Words(ayNorm)
               IN  \A t \in {Tokens(QNorm(q))[k] : k \in 1..TokenCount(q)} :
                       doesTokenMatchAyah(t, ayNorm, ayWords, MapSeq(ayWords, stripAffixes))}}

\* C1: for a query with at least one token, the verses handleSearch returns are
\* exactly the verses with non-empty text that every query token matches, each once.
C1_AndSemantics ==
    [][(SearchStep /\ TokenCount(query) >= 1) =>
          /\ Ids(results') = MatchingIds(quranData, query)
          /\ Len(results') = Cardinality(MatchingIds(quranData, query))]_vars

\* A two-token search has returned a verse and left out a verse that has text and
\* matches one of the two tokens only.
C1_Witness ==
    /\ mounted = "part_004" /\ quranData # <<>> /\ Published
    /\ TokenCount(query) = 2
    /\ results # <<>>
    /\ \E e \in EntrySet(quranData) :
          /\ ~Malformed(e)
          /\ <<e.surah, e.ayah>> \notin Ids(results)
          /\ \E k \in 1..2 :
                <<e.surah, e.ayah>> \in MatchingIds(quranData, Tokens(QNorm(query))[k].raw)

\* C2: of two returned verses, one holding the whole normalized query as a substring
\* and one not, the first has the strictly greater score.
C2_PhraseOutranks ==
    [][SearchStep =>
          \A i, j \in 1..Len(results') :
              (IsPhraseMatch(results'[i], query) /\ ~IsPhraseMatch(results'[j], query))
                  => results'[i].score > results'[j].score]_vars

C2_Witness ==
    /\ mounted = "part_004" /\ quranData # <<>> /\ Published
    /\ TokenCount(query) = 2
    /\ \E i, j \in 1..Len(results) :
          IsPhraseMatch(results[i], query) /\ ~IsPhraseMatch(results[j], query)

\* The tokens of q found literally, raw or stripped, in the normalized text.
LiteralHits(text, q) ==
    Cardinality({k \in 1..TokenCount(q) :
                    \/ Includes(normalizeArabic(text), Tokens(QNorm(q))[k].raw)
                    \/ Includes(normalizeArabic(text), Tokens(QNorm(q))[k].stripped)})

\* C3: a returned verse's score is 100 for a phrase match (else 0) plus the number of
\* tokens found literally; so 100+n for a phrase match and within 0..n otherwise.
C3_ScoreFormula ==
    [][SearchStep =>
          \A i \in 1..Len(results') :
              LET r == results'[i]
                  n == TokenCount(query)
              IN  /\ r.score = (IF IsPhraseMatch(r, query) THEN 100 ELSE 0)
                                   + LiteralHits(r.text, query)
                  /\ IsPhraseMatch(r, query) => r.score = 100 + n
                  /\ ~IsPhraseMatch(r, query) => (r.score >= 0 /\ r.score <= n)]_vars

\* A verse returned through a fuzzy match only scores below the token count, next to
\* nothing else; and a token found through its stripped form only counts as a hit.
C3_Witness ==
    /\ mounted = "part_004" /\ quranData # <<>> /\ Published
    /\ \E i \in 1..Len(results) :
          /\ ~IsPhraseMatch(results[i], query)
          /\ results[i].score < TokenCount(query)
          /\ results[i].score > 0

\* C4: the published list is ordered by non-increasing score, and verses of equal
\* score stay in corpus iteration order.
C4_SortedStable ==
    [][SearchStep =>
          \A i, j \in 1..Len(results') :
              i < j => /\ results'[i].score >= results'[j].score
                       /\ results'[i].score = results'[j].score
                              => Before(results'[i], results'[j])]_vars

\* Three verses returned, a later verse of the corpus ranked first and two of equal score.
C4_Witness ==
    /\ mounted = "part_004" /\ quranData # <<>> /\ Published
    /\ Len(results) = 3
    /\ Before(results[2], results[1])
    /\ results[2].score = results[3].score

\* C5: with a blank query (and, in QuranSearchApp.jsx, no chip) handleSearch publishes
\* the empty list, whatever was displayed before.
C5_BlankQuery ==
    [][/\ (SearchStep /\ Trim(query) = <<>>) => results' = <<>>
       /\ (AppHandleSearch /\ Trim(appQuery) = <<>> /\ chips = <<>>) => appResults' = <<>>]_vars

\* Results are on display and the query has been blanked: the next search clears them.
C5_Witness ==
    /\ SearchRendered
    /\ results # <<>>
    /\ query = <<SPACE, TAB>>

C5_AppWitness ==
    /\ mounted = "QuranSearchApp"
    /\ appResults # <<>>
    /\ appQuery = <<SPACE, TAB>> /\ chips = <<>>

\* The loaded object without its null entries and its entries without text.
WithoutMalformed(data) ==
    << [i \in 1..Len(data[1]) |->
           [key |-> data[1][i].key, isObject |-> data[1][i].isObject,
            verses |-> SelectSeq(data[1][i].verses, LAMBDA e : ~Malformed(e))]] >>

\* C6: null entries and entries without text are never returned, and the list
\* published is the one published for the corpus without them.
C6_MalformedSkipped ==
    [][SearchStep =>
          /\ \A e \in EntrySet(quranData) :
                 Malformed(e) => <<e.surah, e.ayah>> \notin Ids(results')
          /\ quranData # <<>> => results' = handleSearch(WithoutMalformed(quranData), query)]_vars

\* A search over a corpus holding a null entry or an entry without text returned verses.
C6_Witness ==
    /\ mounted = "part_004" /\ quranData # <<>> /\ Published
    /\ results # <<>>
    /\ \E e \in EntrySet(quranData) : e.isNull
    /\ \E e \in EntrySet(quranData) : ~e.isNull /\ Malformed(e)

\* C7: the handler is a function of (corpus, query): a step that changes the list on
\* display leaves corpus and query as they were and publishes the list that (corpus,
\* query) alone determine, whatever list was on display before.
C7_Pure ==
    [][results' # results =>
          /\ UNCHANGED <<quranData, query>>
          /\ results' = handleSearch(quranData, query)]_vars

\* A stale, non-empty list of an earlier search is on display when a search that
\* returns verses is about to run.
C7_Witness ==
    /\ SearchRendered /\ quranData # <<>>
    /\ results # <<>>
    /\ handleSearch(quranData, query) # <<>>
    /\ results # handleSearch(quranData, query)

----------------------------------------------------------------------------
(* Properties of normalizeArabic.                                          *)

Chars(s) == {s[i] : i \in 1..Len(s)}

\* C8: normalizeArabic is idempotent, in part_004 and in QuranSearchApp.jsx.
C8_Idempotent ==
    /\ fn = "normalizeArabic" => normalizeArabic(ret) = ret
    /\ fn = "AppNormalizeArabic" => AppNormalizeArabic(ret) = ret

\* A text that normalization changed into a text of two words.
C8_Witness ==
    /\ fn = "normalizeArabic"
    /\ ret # args[1]
    /\ Len(Words(ret)) = 2

\* The combining marks and Quranic annotation signs of the Arabic block.
IsMark(c) ==
    \/ (c >= 1552 /\ c <= 1562)
    \/ (c >= 1611 /\ c <= 1631)
    \/ c = 1648
    \/ (c >= 1750 /\ c <= 1773)
Folded(c) ==
    IF c \in {1570, 1571, 1572, 1573, 1574, 1569, 1649} THEN 1575
    ELSE IF c = 1609 THEN 1610
    ELSE IF c = 1577 THEN 1607
    ELSE c
\* The Arabic-block characters of a text that are neither marks nor tatweel, folded.
Skeleton(text) ==
    MapSeq(SelectSeq(text, LAMBDA c : InArabicBlock(c) /\ ~IsMark(c) /\ c # 1600), Folded)

\* C9: the output of normalizeArabic (part_004) holds no tatweel, no mark, no hamza
\* or alef variant, no alef maqsura and no teh marbuta; its characters other than
\* spaces are the Arabic characters of the input that are neither marks nor tatweel,
\* in order, with the variants folded to alef, yeh and heh.
C9_Folding ==
    fn = "normalizeArabic" =>
        /\ \A c \in Chars(ret) :
               /\ c # 1600 /\ ~IsMark(c)
               /\ c \notin {1570, 1571, 1572, 1573, 1574, 1569, 1649, 1609, 1577}
        /\ SelectSeq(ret, LAMBDA c : c # SPACE) = Skeleton(args[1])
        /\ args[1] = BISMILLAH => ret = BISM_ALLAH

\* The text of scenario A has been normalized.
C9_Witness ==
    /\ fn = "normalizeArabic"
    /\ args[1] = BISMILLAH
    /\ ret = BISM_ALLAH

\* The letters of the Arabic block (Unicode general category L).
IsArabicLetter(c) ==
    \/ (c >= 1568 /\ c <= 1610)
    \/ (c >= 1646 /\ c <= 1647)
    \/ (c >= 1649 /\ c <= 1747)
    \/ c \in {1749, 1765, 1766, 1774, 1775, 1786, 1787, 1788, 1791}
IsDigitOrPunctuation(c) ==
    \/ (c >= 33 /\ c <= 64)
    \/ (c >= 1632 /\ c <= 1641)
    \/ c \in {1548, 1549, 1563, 1566, 1567, 1642, 1643, 1644, 1645, 1748}
SingleSpaced(s) ==
    /\ \A i \in 1..Len(s) : IsSpace(s[i]) => s[i] = SPACE
    /\ s # <<>> => (s[1] # SPACE /\ s[Len(s)] # SPACE)
    /\ \A i \in 1..(Len(s) - 1) : ~(s[i] = SPACE /\ s[i + 1] = SPACE)

\* C10 as stated: the output of normalizeArabic (part_004) consists only of Arabic
\* letters separated by single spaces; every digit and punctuation character of the
\* input, whatever its script, is removed.
C10_OnlyLetters ==
    fn = "normalizeArabic" =>
        /\ SingleSpaced(ret)
        /\ \A c \in Chars(ret) : c = SPACE \/ IsArabicLetter(c)
        /\ \A c \in Chars(ret) : ~IsDigitOrPunctuation(c)

\* C10 amended: the output consists only of characters of the Arabic block
\* U+0600-U+06FF separated by single spaces; every character outside the block (Latin
\* text, ASCII digits and punctuation) is removed, while the digits and punctuation of
\* the Arabic block itself are kept.
C10_OnlyArabicBlock ==
    fn = "normalizeArabic" =>
        /\ SingleSpaced(ret)
        /\ \A c \in Chars(ret) : c = SPACE \/ InArabicBlock(c)
        /\ \A c \in Chars(args[1]) :
               (InArabicBlock(c) /\ IsDigitOrPunctuation(c)) => c \in Chars(ret)

\* An input with an ASCII digit and an Arabic-Indic digit: the first is gone, the
\* second is kept.
C10_Witness ==
    /\ fn = "normalizeArabic"
    /\ DIGIT_ONE \in Chars(args[1])
    /\ ARABIC_ZERO \in Chars(ret)

----------------------------------------------------------------------------
(* Properties of stripPrefixes / stripSuffixes / stripAffixes (part_004).  *)

Contiguous(sub, word) ==
    \E i \in 0..(Len(word) - Len(sub)) : SubSeq(word, i + 1, i + Len(sub)) = sub
AtLeastTwoOrAll(r, word) ==
    /\ Contiguous(r, word)
    /\ Len(r) >= (IF Len(word) < 2 THEN Len(word) ELSE 2)
    /\ (Len(word) <= 2 => r = word)
InStripLoop == pc \in {"prefixLoop", "suffixLoop"}

\* C11: what a strip function returns is a contiguous part of its argument of
\* length at least min(|w|, 2), a word of length <= 2 comes back unchanged, and
\* every single removal of a prefix or suffix leaves at least 2 characters.
C11_StripKeepsTwo ==
    /\ [](AtLeastTwoOrAll(stripAffixes(args[1]), args[1]))
    /\ [](pc = "done" => AtLeastTwoOrAll(ret, args[1]))
    /\ [][InStripLoop /\ frame'.w # frame.w =>
              Len(frame'.w) >= 2 /\ Contiguous(frame'.w, frame.w)]_vars

\* stripAffixes has returned two characters that still begin with a listed prefix.
C11_Witness ==
    /\ pc = "done" /\ fn = "stripAffixes"
    /\ Len(args[1]) > 2 /\ Len(ret) = 2
    /\ StartsWith(ret, <<LAM>>)

StripResult(f, word) ==
    IF f = "stripPrefixes" THEN stripPrefixes(word)
    ELSE IF f = "stripSuffixes" THEN stripSuffixes(word)
    ELSE stripAffixes(word)

\* C12: every call of a strip function returns; it returns the string the search
\* uses; a loop makes at most 3 (prefixes) or 2 (suffixes) passes, a character is
\* removed only by a pass that is counted, and after a pass that removed nothing
\* no further pass is made.
C12_StripTerminates ==
    /\ <>(pc = "done")
    /\ [](pc = "done" => ret = StripResult(fn, args[1]))
    /\ [](pc = "prefixLoop" => frame.loops <= 3)
    /\ [](pc = "suffixLoop" => frame.loops <= 2)
    /\ [][InStripLoop /\ frame'.w # frame.w =>
              pc' = pc /\ frame'.loops = frame.loops + 1]_vars
    /\ [][InStripLoop /\ ~frame.changed => pc' # pc]_vars

\* Three prefixes are gone and a fourth one could still be removed.
C12_Witness ==
    /\ pc = "prefixLoop"
    /\ frame.loops = 3 /\ frame.changed
    /\ FirstPrefix(frame.w) # 0

----------------------------------------------------------------------------
(* Properties of levenshteinDistance / similarityScore (part_004).         *)

\* C13: the score is a number between 0 and 1, and it is 1 for two equal strings,
\* the empty string included.
C13_ScoreInUnitInterval ==
    fn = "similarityScore" =>
        /\ ret[2] > 0
        /\ 0 <= ret[1] /\ ret[1] <= ret[2]
        /\ (args[1] = args[2] => ret[1] = ret[2])

\* The score of the empty string against itself has been computed.
C13_Witness ==
    fn = "similarityScore" /\ args = << <<>>, <<>> >> /\ ret[1] = ret[2]

SameNumber(x, y) == x[1] * y[2] = y[1] * x[2]

\* C14: the score of (a, b) is the score of (b, a).
C14_Symmetric ==
    fn = "similarityScore" => SameNumber(ret, similarityScore(args[2], args[1]))

\* Two different strings of different lengths with a score strictly between 0 and 1.
C14_Witness ==
    /\ fn = "similarityScore"
    /\ Len(args[1]) < Len(args[2])
    /\ 0 < ret[1] /\ ret[1] < ret[2]

\* The strings one insertion, deletion or substitution away from s, over the
\* characters of `alphabet` and no longer than maxLen.
Edits(s, alphabet, maxLen) ==
    {SubSeq(s, 1, i - 1) \o SubSeq(s, i + 1, Len(s)) : i \in 1..Len(s)}
        \cup {[s EXCEPT ![i] = c] : i \in 1..Len(s), c \in alphabet}
        \cup (IF Len(s) < maxLen
              THEN {SubSeq(s, 1, i) \o <<c>> \o SubSeq(s, i + 1, Len(s)) :
                        i \in 0..Len(s), c \in alphabet}
              ELSE {})

\* The least number of edits after which b is reached from the strings `reached`
\* within k edits of the start.
RECURSIVE EditSteps(_, _, _, _, _)
EditSteps(reached, b, k, alphabet, maxLen) ==
    IF b \in reached THEN k
    ELSE EditSteps(reached \cup UNION {Edits(s, alphabet, maxLen) : s \in reached},
                   b, k + 1, alphabet, maxLen)

\* The edit distance by its definition. A shortest edit script needs no character
\* outside a and b and, deleting before inserting, no string longer than the longer
\* of the two.
EditDistance(a, b) ==
    EditSteps({a}, b, 0, Chars(a) \cup Chars(b), IF Len(a) >= Len(b) THEN Len(a) ELSE Len(b))

\* C15: levenshteinDistance returns the edit distance d, and the score of two
\* non-empty strings is (max - d) / max; it is 1 for two empty strings and 0 when
\* exactly one is empty.
C15_ScoreIsEditRatio ==
    LET a == args[1]
        b == args[2]
        longest == IF Len(a) >= Len(b) THEN Len(a) ELSE Len(b)
    IN  /\ fn = "levenshteinDistance" => ret = EditDistance(a, b)
        /\ fn = "similarityScore" =>
              IF a = <<>> /\ b = <<>> THEN ret[1] = ret[2] /\ ret[2] > 0
              ELSE IF a = <<>> \/ b = <<>> THEN ret[1] = 0 /\ ret[2] > 0
              ELSE SameNumber(ret, <<longest - EditDistance(a, b), longest>>)

\* A distance that needs a substitution: equal lengths, distance below the length.
C15_Witness ==
    /\ fn = "levenshteinDistance"
    /\ Len(args[1]) = Len(args[2]) /\ args[1] # args[2]
    /\ ret = 1 /\ Len(args[1]) = MaxSimLen

----------------------------------------------------------------------------
(* Properties of doesTokenMatchAyah (part_004).                            *)

Matched == fn = "doesTokenMatchAyah"
TokenRaw == normalizeArabic(args[1])
TokenStripped == stripAffixes(TokenRaw)
VerseNorm == normalizeArabic(args[2])
VerseWords == {Words(VerseNorm)[i] : i \in 1..Len(Words(VerseNorm))}
VerseWordsStripped == {stripAffixes(w) : w \in VerseWords}
QuranClass ==
    TokenStripped \in quranRoots \/ StartsWith(TokenStripped, <<QAF, REH, ALEF, NOON>>)
Similar(a, b, pct) ==
    LET sc == similarityScore(a, b) IN sc[1] * 100 >= pct * sc[2]
GenericRules ==
    \/ Includes(VerseNorm, TokenRaw)
    \/ TokenRaw \in VerseWords
    \/ TokenStripped \in VerseWordsStripped
    \/ \E w \in VerseWords : Similar(w, TokenRaw, 88)
    \/ \E w \in VerseWordsStripped : Similar(w, TokenStripped, 88)

\* C16: for a token whose stripped form is a Quran root or begins with the root,
\* the answer is true iff a verse word is a whitelisted form or is at least 0.92
\* similar to the stripped token, whatever the generic rules would say; the query
\* with the word for Quran does not match a verse whose related word is qurun.
C16_QuranStrictRule ==
    Matched /\ QuranClass =>
        /\ ret = (\E w \in VerseWords : w \in quranWords \/ Similar(w, TokenStripped, 92))
        /\ (args[1] = AL_QURAN /\ VerseWords = {MIN, <<ALEF, LAM>> \o QURUN} => ret = FALSE)

\* A Quran-class token was rejected for a verse the generic rules accept.
C16_Witness ==
    Matched /\ QuranClass /\ ret = FALSE /\ GenericRules

\* The sura-opening letter sequences the claim names.
SuraOpenings ==
    { YASIN, <<HAH, MEEM>>, ALIF_LAM_MIM, <<TAH, SEEN, MEEM>>,
      <<KAF, HEH, YEH, AIN, SAD>> }

\* C17: a token that is a sura-opening letter sequence matches a verse only if a
\* whole word of the verse, raw or stripped, equals the token.
C17_OpeningsWholeWord ==
    Matched /\ TokenRaw \in SuraOpenings /\ ret = TRUE =>
        TokenRaw \in VerseWords \cup VerseWordsStripped

\* C18: a token of at most 2 characters matches only if a whole verse word equals
\* it or is at least 0.95 similar to it; yasin matches the verse yasin and not a
\* verse where it only occurs inside yasaa.
C18_ShortWholeWord ==
    Matched /\ Len(TokenRaw) <= 2 =>
        /\ ret = TRUE => \E w \in VerseWords : w = TokenRaw \/ Similar(w, TokenRaw, 95)
        /\ (args[1] = YASIN /\ args[2] = YASIN => ret = TRUE)
        /\ (args[1] = YASIN /\ YASIN \notin VerseWords => ret = FALSE)

\* A short token that occurs inside a longer verse word was rejected.
C18_Witness ==
    /\ Matched /\ Len(TokenRaw) <= 2
    /\ Includes(VerseNorm, TokenRaw) /\ TokenRaw \notin VerseWords
    /\ ret = FALSE

\* C19: for a token of at least 3 characters that is not Quran-class the answer is
\* true iff the raw token is inside the verse's normalized text, or equals a verse
\* word, or the stripped token equals a stripped verse word, or a verse word is at
\* least 0.88 similar to the raw token, or a stripped verse word to the stripped one.
C19_GenericRules ==
    Matched /\ Len(TokenRaw) >= 3 /\ ~QuranClass => ret = GenericRules

\* A token matched by the stripped forms alone.
C19_Witness ==
    /\ Matched /\ Len(TokenRaw) >= 3 /\ ~QuranClass
    /\ ret = TRUE
    /\ ~Includes(VerseNorm, TokenRaw)
    /\ \A w \in VerseWords : ~Similar(w, TokenRaw, 88)
    /\ TokenStripped \in VerseWordsStripped

----------------------------------------------------------------------------
(* Properties of handleSearch (src/src/QuranSearchApp.jsx).                *)

\* A step of the search handler of QuranSearchApp.jsx.
AppSearchStep == UNCHANGED <<quran, appQuery, chips>> /\ AppHandleSearch

\* A token matches a verse by containment (in the text, in a word, or of a word)
\* or by being at least 0.8 similar to one of the verse's words.
AppTokenJudgedMatching(tok, norm) ==
    \/ Includes(norm, tok)
    \/ \E i \in 1..Len(Words(norm)) :
           \/ Includes(Words(norm)[i], tok)
           \/ Includes(tok, Words(norm)[i])
           \/ LET sc == AppSimilarityScore(Words(norm)[i], tok)
              IN  sc[1] * 100 >= 80 * sc[2]

\* C20: a verse is in the results of QuranSearchApp.jsx only if every token, chip
\* or query word, matches it.
C20_AppAndSemantics ==
    [][AppSearchStep =>
          \A i \in 1..Len(appResults') :
              \A k \in 1..Len(AppTokens(chips, appQuery)) :
                  AppTokenJudgedMatching(AppTokens(chips, appQuery)[k],
                                         appResults'[i].norm)]_vars

----------------------------------------------------------------------------
(* Properties of the corpus load of part_004.                              *)

DataSet == quranData # <<>>
ErrorSet == error # "null"

----------------------------------------------------------------------------
(* Queries without a token (part_004).                                     *)

\* C23: a query that is not blank and whose normalized form has no token gives
\* the empty result list.
C23_NoTokenNoResult ==
    [][SearchStep /\ Trim(query) # <<>> /\ TokenCount(query) = 0 =>
          results' = <<>>]_vars

----------------------------------------------------------------------------
(* The word lists of doesTokenMatchAyah under normalizeArabic (part_004).  *)

\* C24: every form of the Quran-root list and of the accepted-surface-form list
\* is left unchanged by normalizeArabic.
C24_ListedFormsNormalized ==
    fn = "normalizeArabic" /\ args[1] \in quranRoots \cup quranWords => ret = args[1]

----------------------------------------------------------------------------
(* Short tokens (part_004).                                                *)

----------------------------------------------------------------------------
(* Growing queries (part_004).                                             *)

TokenSet(q) == {Words(QNorm(q))[i] : i \in 1..Len(Words(QNorm(q)))}

\* C26: for two queries with at least one token each, if every token of the
\* first is a token of the second, the verses returned for the second are among
\* those returned for the first; queries with the same set of tokens return the
\* same set of verses.
C26_MoreTokensNarrow ==
    fn = "handleSearch" /\ TokenSet(args[2]) # {} /\ TokenSet(args[2]) \subseteq TokenSet(args[3])
        => Ids(ret[2]) \subseteq Ids(ret[1])

\* A second query with one more token returns some, not all, verses of the first.
C26_Witness ==
    /\ fn = "handleSearch"
    /\ TokenSet(args[2]) # {} /\ TokenSet(args[2]) \subseteq TokenSet(args[3])
    /\ TokenSet(args[2]) # TokenSet(args[3])
    /\ Ids(ret[2]) # {} /\ Ids(ret[2]) # Ids(ret[1])

----------------------------------------------------------------------------
(* Recitation audio (QuranSearchApp.jsx).                                  *)

\* C27: at most one of the Audio objects created by playAyah is playing, in
\* every state, and a click on the stop button leaves none of them playing.
C27_OneRecitation ==
    /\ [](Cardinality(playing) <= 1)
    /\ [][StopAudio => playing' = {}]_vars

----------------------------------------------------------------------------
(* The tafsir panel (QuranSearchApp.jsx).                                  *)

\* C28: when no tafsir fetch is pending and the panel shows the tafsir of a
\* verse, that verse is the one of the latest click on a tafsir button.
C28_LatestTafsirShown ==
    pendingTafsir = {} /\ lastTafsir # <<>> /\ tafseerText \notin {"null", "loading", "fallback"}
        => tafseerText = TafsirText(lastTafsir[1])

----------------------------------------------------------------------------
(* Failing fetches (QuranSearchApp.jsx).                                   *)

Settled(req, pending) == req \in pending /\ pending' = pending \ {req}

\* C21: whatever way the fetches of the corpus, of a tafsir and of an audio url
\* fail, no request ends rejected and the loading flag is never left true; a
\* failed load of the corpus sets its message and leaves quran null, and a
\* search for a non-blank query after it sets the 'not loaded' message with no
\* results; a tafsir request ends with a text shown, that of the verse or the
\* fallback; a play request ends with a url or with the 'no audio' message.
C21_FetchFailuresHandled ==
    /\ [](~appLoading)
    /\ [](\A req \in pendingPlay \cup pendingTafsir : req.pc \in {"try1", "try2"})
    /\ [](fetchState = "failed" => quran = <<>>)
    /\ [][fetchState = "pending" /\ fetchState' = "failed" => message' = "loadFailed"]_vars
    /\ [][fetchState = "failed" /\ AppSearchStep /\ (Trim(appQuery) # <<>> \/ chips # <<>>)
              => message' = "notLoaded" /\ appResults' = <<>> /\ ~appLoading']_vars
    /\ [][\A req \in pendingTafsir : Settled(req, pendingTafsir)
              => tafseerText' \in {TafsirText(req.key), "fallback"}]_vars
    /\ [][\A req \in pendingPlay : Settled(req, pendingPlay)
              => audioUrl' = <<req.key>> \/ (audioUrl' = audioUrl /\ message' = "noAudio")]_vars
C21_Witness ==
    /\ tafseerText = "fallback"
    /\ message = "noAudio"
    /\ audioUrl = <<>>
    /\ pendingPlay = {} /\ pendingTafsir = {}

----------------------------------------------------------------------------
(* The suggestion timer (QuranSearchApp.jsx).                              *)

\* C29: at most one suggestion timer is pending; a change of the query or of
\* the word index leaves none of the timers that were pending; a timer that
\* fires was set for the current query; while the trimmed query has fewer than
\* 2 characters the suggestion list is empty.
C29_Debounced ==
    /\ [](Cardinality(timers) <= 1)
    /\ [][appQuery' # appQuery \/ allWords' # allWords => timers \cap timers' = {}]_vars
    /\ [][\A t \in timers : SuggestionTimerFires(t) => t.query = appQuery]_vars
    /\ [](Len(Trim(appQuery)) < 2 => suggestions = <<>>)
C29_Witness ==
    /\ suggestions # <<>>
    /\ Cardinality(timers) = 1
    /\ suggestions # Suggest(appQuery, allWords)

----------------------------------------------------------------------------
(* highlightAyah returns safe HTML (QuranSearchApp.jsx).                   *)

OPEN == 0 - 1
CLOSE == 0 - 2
BAD == 0 - 3

\* The html read back: OPEN and CLOSE for the two tags of the wrapper, the
\* character of each entity, BAD for any other &, < or >, every other character
\* as it is.
RECURSIVE ParseHtml(_)
ParseHtml(html) ==
    IF html = <<>> THEN <<>>
    ELSE IF StartsWith(html, SpanOpen)
         THEN <<OPEN>> \o ParseHtml(SubSeq(html, Len(SpanOpen) + 1, Len(html)))
    ELSE IF StartsWith(html, SpanClose)
         THEN <<CLOSE>> \o ParseHtml(SubSeq(html, Len(SpanClose) + 1, Len(html)))
    ELSE IF StartsWith(html, AmpEntity)
         THEN <<AMPERSAND>> \o ParseHtml(SubSeq(html, Len(AmpEntity) + 1, Len(html)))
    ELSE IF StartsWith(html, LtEntity)
         THEN <<LESS_THAN>> \o ParseHtml(SubSeq(html, Len(LtEntity) + 1, Len(html)))
    ELSE IF StartsWith(html, GtEntity)
         THEN <<GREATER_THAN>> \o ParseHtml(SubSeq(html, Len(GtEntity) + 1, Len(html)))
    ELSE IF Head(html) \in {AMPERSAND, LESS_THAN, GREATER_THAN}
         THEN <<BAD>> \o ParseHtml(Tail(html))
    ELSE <<Head(html)>> \o ParseHtml(Tail(html))

IsWordChar(x) == x >= 0 /\ ~IsSpace(x)
\* Every wrapper holds one whole word: it opens at the start of the text or after
\* white space, closes at its end or before white space, with one or more
\* characters that are not white space in between.
WholeWordWrappers(items) ==
    /\ \A i \in 1..Len(items) : items[i] = OPEN =>
           /\ i = 1 \/ (items[i - 1] >= 0 /\ IsSpace(items[i - 1]))
           /\ \E j \in (i + 2)..Len(items) :
                  /\ items[j] = CLOSE
                  /\ \A k \in (i + 1)..(j - 1) : IsWordChar(items[k])
                  /\ j = Len(items) \/ (items[j + 1] >= 0 /\ IsSpace(items[j + 1]))
    /\ \A j \in 1..Len(items) : items[j] = CLOSE =>
           \E i \in 1..(j - 2) :
               items[i] = OPEN /\ \A k \in (i + 1)..(j - 1) : IsWordChar(items[k])

\* C30: in the html returned by highlightAyah every &, < and > is part of an
\* entity or of a match-glow tag, every match-glow wrapper holds one whole
\* word, and the html without the tags and with the entities decoded is the
\* verse text.
C30_SafeHtml ==
    fn = "highlightAyah" =>
        LET items == ParseHtml(ret)
        IN  /\ \A i \in 1..Len(items) : items[i] # BAD
            /\ WholeWordWrappers(items)
            /\ SelectSeq(items, LAMBDA x : x >= 0) = args[1]
C30_Witness ==
    /\ fn = "highlightAyah"
    /\ Includes(ret, SpanOpen \o <<BEH>> \o AmpEntity)
    /\ Includes(ret, <<SPACE>> \o LtEntity)

====
